---- MODULE Spec2Model ----
(***************************************************************************)
(* Component model of pyrevit.extensions.genericcomps:                     *)
(*   - GenericUIComponent / GenericUIContainer search-path bookkeeping     *)
(*     (add_search_path, remove_search_path, add_component), and           *)
(*   - GenericUIContainer layout-ordered iteration                         *)
(*     (_read_layout_file, _get_components_per_layout, __iter__),          *)
(*   - GenericUIComponent.__init_from_dir__ and _get_unique_name, and      *)
(*   - GenericUICommand.__init_from_dir__, its metadata and is_supported.  *)
(***************************************************************************)
EXTENDS Integers, Sequences, FiniteSets, TLC

\* ---------------------------------------------------------------- bounds
\* distinct non-empty search paths 1..NumPaths
NumPaths == 2

\* most lines a layout file holds
MaxLayoutLines == 3
\* most components the parser adds to the container that is iterated
MaxComponents == 3

\* the falsy path argument ('' or None) of "if path and ..."
NoPath == 0

\* the components of the search-path model: two GenericUIContainer objects
\* and one GenericUICommand (plain GenericUIComponent search-path behaviour)
Containers == {"tab", "panel"}
Commands == {"cmd"}
Nodes == Containers \cup Commands
Paths == 1..NumPaths
PathArgs == {NoPath} \cup Paths

None == "None"

\* An attribute that holds None or an object is a sequence of no element
\* (None) or of one (the object).
Nothing == <<>>
Some(x) == <<x>>

VARIABLES
    module_paths,       \* node -> sequence of paths    (self.module_paths)
    _sub_components,    \* container -> sequence of nodes (self._sub_components)
    last,               \* name of the method called last
    name,               \* component -> self.name ('' until initialised)
    ui_title,           \* component -> self.ui_title
    layout,             \* self.layout of the container that is iterated
    layout_items,       \* self.layout_items of that container
    ret,                \* Some(value) when the last call returned a value
    \* components initialised from a directory
    type_id,            \* component -> type_id of its class
    directory,          \* component -> self.directory
    unique_name,        \* component -> self.unique_name
    library_path,       \* component -> self.library_path
    binary_path,        \* component -> self.binary_path
    \* GenericUICommand attributes
    meta_file,          \* command -> self.meta_file
    meta,               \* command -> self.meta
    script_file,        \* command -> self.script_file
    config_script_file, \* command -> self.config_script_file
    min_revit_ver,      \* command -> self.min_revit_ver
    max_revit_ver,      \* command -> self.max_revit_ver
    cmd_context,        \* command -> self.cmd_context
    doc_string,         \* command -> self.doc_string
    beta_cmd,           \* command -> self.beta_cmd
    requires_clean_engine, \* command -> self.requires_clean_engine
    author,             \* command -> self.author
    cmd_help_url,       \* command -> self.cmd_help_url
    \* outside the objects
    args,               \* the arguments of the last __init_from_dir__ call
    raised,             \* Some(exception) when the last call raised
    errors,             \* number of mlogger.error diagnostics so far
    disk,               \* what the bundle directory holds
    HOST_APP,           \* the host application
    \* the loggers
    envvars,            \* the pyRevit environment variables of logging
    EXEC_PARAMS,        \* the execution parameters
    _has_errors,        \* logger -> self._has_errors
    _filelogstate,      \* logger -> self._filelogstate
    _curlevel,          \* logger -> self._curlevel
    handled             \* the last log call and the handlers that handled its record

layoutVars == <<name, ui_title, layout, layout_items, ret>>
componentVars == <<type_id, directory, unique_name, library_path, binary_path>>
commandVars == <<meta_file, meta, script_file, config_script_file,
                 min_revit_ver, max_revit_ver, cmd_context, doc_string,
                 beta_cmd, requires_clean_engine, author, cmd_help_url>>
outsideVars == <<args, raised, errors, disk, HOST_APP>>
loggerVars == <<envvars, EXEC_PARAMS, _has_errors, _filelogstate, _curlevel,
                handled>>
dirVars == <<componentVars, commandVars, outsideVars, loggerVars>>
vars == <<module_paths, _sub_components, last, name, ui_title, layout,
          layout_items, ret, dirVars>>

\* no logger is registered
NoLoggerState ==
    /\ envvars = <<>> /\ EXEC_PARAMS = <<>>
    /\ _has_errors = <<>> /\ _filelogstate = <<>> /\ _curlevel = <<>>
    /\ handled = <<>>

\* no component is initialised from a directory
NoDirState ==
    /\ type_id = <<>> /\ directory = <<>> /\ unique_name = <<>>
    /\ library_path = <<>> /\ binary_path = <<>>
    /\ meta_file = <<>> /\ meta = <<>>
    /\ script_file = <<>> /\ config_script_file = <<>>
    /\ min_revit_ver = <<>> /\ max_revit_ver = <<>>
    /\ cmd_context = <<>> /\ doc_string = <<>>
    /\ beta_cmd = <<>> /\ requires_clean_engine = <<>>
    /\ author = <<>> /\ cmd_help_url = <<>>
    /\ args = <<>> /\ raised = Nothing /\ errors = 0
    /\ disk = <<>> /\ HOST_APP = <<>>
    /\ NoLoggerState

\* ------------------------------------------------------------- helpers
Range(s) == {s[i] : i \in DOMAIN s}

Count(s, x) == Cardinality({i \in DOMAIN s : s[i] = x})

\* list.remove(x): drops the first occurrence of x
RECURSIVE ListRemove(_, _)
ListRemove(s, x) ==
    IF s = <<>> THEN <<>>
    ELSE IF Head(s) = x THEN Tail(s)
    ELSE <<Head(s)>> \o ListRemove(Tail(s), x)

is_container(n) == n \in Containers

get_components(sub, n) == IF is_container(n) THEN sub[n] ELSE <<>>

has_search_path(mp, n, path) == path \in Range(mp[n])

\* ------------------------------------------------ add_search_path
RECURSIVE add_search_path(_, _, _, _)
RECURSIVE AddToComponents(_, _, _, _)

\* "for component in self.get_components(): component.add_search_path(path)"
AddToComponents(mp, sub, comps, path) ==
    IF comps = <<>> THEN mp
    ELSE AddToComponents(add_search_path(mp, sub, Head(comps), path),
                         sub, Tail(comps), path)

\* GenericUIContainer.add_search_path for a container,
\* GenericUIComponent.add_search_path for a command
add_search_path(mp, sub, n, path) ==
    IF path # NoPath /\ ~has_search_path(mp, n, path)
    THEN LET below == IF is_container(n)
                      THEN AddToComponents(mp, sub, get_components(sub, n), path)
                      ELSE mp
         IN  [below EXCEPT ![n] = Append(below[n], path)]
    ELSE mp

\* ------------------------------------------------ remove_search_path
RECURSIVE remove_search_path(_, _, _, _)
RECURSIVE RemoveFromComponents(_, _, _, _)

\* "for component in self.get_components(): component.remove_search_path(path)"
RemoveFromComponents(mp, sub, comps, path) ==
    IF comps = <<>> THEN mp
    ELSE RemoveFromComponents(remove_search_path(mp, sub, Head(comps), path),
                              sub, Tail(comps), path)

\* mutant: the path is taken out of the receiver only, not out of its children
remove_search_path_SelfOnly(mp, sub, n, path) ==
    IF path # NoPath /\ has_search_path(mp, n, path)
    THEN [mp EXCEPT ![n] = ListRemove(mp[n], path)]
    ELSE mp

remove_search_path(mp, sub, n, path) ==
    IF path # NoPath /\ has_search_path(mp, n, path)
    THEN LET below == IF is_container(n)
                      THEN RemoveFromComponents(mp, sub, get_components(sub, n), path)
                      ELSE mp
         IN  [below EXCEPT ![n] = ListRemove(below[n], path)]
    ELSE mp

\* ------------------------------------------------ add_component
\* "for path in self.module_paths: comp.add_search_path(path)"
RECURSIVE InheritPaths(_, _, _, _)
InheritPaths(mp, sub, comp, paths) ==
    IF paths = <<>> THEN mp
    ELSE InheritPaths(add_search_path(mp, sub, comp, Head(paths)),
                      sub, comp, Tail(paths))

add_component_paths(mp, sub, n, comp) == InheritPaths(mp, sub, comp, mp[n])

add_component_list(sub, n, comp) == [sub EXCEPT ![n] = Append(sub[n], comp)]

\* ------------------------------------------------ tree shape
Children(sub, n) == Range(get_components(sub, n))

HasParent(sub, c) == \E n \in Containers : c \in Children(sub, n)

RECURSIVE Descendants(_, _)
Descendants(sub, n) ==
    LET ch == Children(sub, n)
    IN  ch \cup UNION {Descendants(sub, c) : c \in ch}

Subtree(sub, n) == {n} \cup Descendants(sub, n)

\* ------------------------------------------------ layout: strings
\* A string is the sequence of its characters.
SEPARATOR_IDENTIFIER == <<"-", "-", "-">>
SLIDEOUT_IDENTIFIER == <<">", ">", ">">>
TITLE == <<"t", "i", "t", "l", "e">>

\* "sub in s" on strings
Contains(s, sub) ==
    \E i \in 1..(Len(s) - Len(sub) + 1) : SubSeq(s, i, i + Len(sub) - 1) = sub

Positions(s, ch) == {i \in DOMAIN s : s[i] = ch}

Max(S) == CHOOSE x \in S : \A y \in S : y <= x
Min(S) == CHOOSE x \in S : \A y \in S : x <= y

\* re.sub(r'\[.+\]', '', s): the match starts at the first '[' and, '.+' being
\* greedy, ends at the last ']' of the line, with one character or more
\* between them
RemoveDirective(s) ==
    LET opens == Positions(s, "[")
        closes == Positions(s, "]")
    IN  IF opens # {} /\ closes # {} /\ Max(closes) >= Min(opens) + 2
        THEN SubSeq(s, 1, Min(opens) - 1) \o SubSeq(s, Max(closes) + 1, Len(s))
        ELSE s

\* GenericUIContainer._remove_layout_directives
_remove_layout_directives(items) ==
    [i \in DOMAIN items |-> RemoveDirective(items[i])]

UPPER == <<"A", "B", "C", "D", "E", "F", "G", "H", "I", "J", "K", "L", "M",
           "N", "O", "P", "Q", "R", "S", "T", "U", "V", "W", "X", "Y", "Z">>
LOWER == <<"a", "b", "c", "d", "e", "f", "g", "h", "i", "j", "k", "l", "m",
           "n", "o", "p", "q", "r", "s", "t", "u", "v", "w", "x", "y", "z">>

\* str.lower()
Lower(s) ==
    [i \in DOMAIN s |->
        IF \E k \in DOMAIN UPPER : UPPER[k] = s[i]
        THEN LOWER[CHOOSE k \in DOMAIN UPPER : UPPER[k] = s[i]]
        ELSE s[i]]

IsSpace(ch) == ch \in {" ", "\t"}

\* str.strip()
Strip(s) ==
    LET keep == {i \in DOMAIN s : ~IsSpace(s[i])}
    IN  IF keep = {} THEN <<>> ELSE SubSeq(s, Min(keep), Max(keep))

\* decode('string_escape') on the escapes \\, \n and \t; a backslash before
\* any other character stays as it is
RECURSIVE Unescape(_)
Unescape(s) ==
    IF s = <<>> THEN <<>>
    ELSE IF s[1] = "\\" /\ Len(s) >= 2 /\ s[2] \in {"\\", "n", "t"}
    THEN <<CASE s[2] = "n" -> "\n" [] s[2] = "t" -> "\t" [] OTHER -> "\\">>
         \o Unescape(SubSeq(s, 3, Len(s)))
    ELSE <<s[1]>> \o Unescape(Tail(s))

\* re.findall(r'(.+)\[(.+):(.*)\]', item_def): every group is greedy, so the
\* match starts at the first character, '[' is the last one that still has a
\* ':' two places or more to its right with a ']' after it, ':' is the last
\* one with a ']' after it, and ']' is the last of the line. A line yields
\* one directive at most.
DirectiveOpens(s) ==
    {i \in Positions(s, "[") :
        /\ i >= 2
        /\ \E j \in Positions(s, ":") :
            j >= i + 2 /\ \E k \in Positions(s, "]") : k > j}

HasDirective(s) == DirectiveOpens(s) # {}

DirectiveOf(s) ==
    LET i == Max(DirectiveOpens(s))
        j == Max({c \in Positions(s, ":") :
                    c >= i + 2 /\ \E k \in Positions(s, "]") : k > c})
        k == Max(Positions(s, "]"))
    IN  [item |-> SubSeq(s, 1, i - 1),
         type |-> Strip(Lower(SubSeq(s, i + 1, j - 1))),
         target |-> Unescape(Strip(SubSeq(s, j + 1, k - 1)))]

\* GenericUIContainer.get_layout_directives
RECURSIVE DirectivesOf(_)
DirectivesOf(lines) ==
    IF lines = <<>> THEN <<>>
    ELSE (IF HasDirective(Head(lines)) THEN <<DirectiveOf(Head(lines))>> ELSE <<>>)
         \o DirectivesOf(Tail(lines))

\* a truth test that takes the empty list for a layout
Truthy_NotNone(list) == list # Nothing

\* "if self.layout:" : None and the empty list are falsy
Truthy(list) == list # Nothing /\ list[1] # <<>>

get_layout_directives(lines) ==
    IF Truthy(lines) THEN DirectivesOf(lines[1]) ELSE <<>>

\* ------------------------------------------------ layout: iteration
\* a directive that gives back the name to a component that has the title
_apply_layout_directive_Toggling(directives, component, nm, titles) ==
    LET matching == {i \in DOMAIN directives : directives[i].item = nm[component]}
    IN  IF matching # {} /\ directives[Min(matching)].type = TITLE
        THEN [titles EXCEPT ![component] =
                IF @ = directives[Min(matching)].target
                THEN nm[component] ELSE directives[Min(matching)].target]
        ELSE titles

\* GenericUIContainer._apply_layout_directive: the first directive whose item
\* is the component's name decides; only a title directive does anything
_apply_layout_directive(directives, component, nm, titles) ==
    LET matching == {i \in DOMAIN directives : directives[i].item = nm[component]}
    IN  IF matching # {} /\ directives[Min(matching)].type = TITLE
        THEN [titles EXCEPT ![component] = directives[Min(matching)].target]
        ELSE titles

\* an element of the list __iter__ returns: a stored component, or a
\* GenericComponent() placeholder created for a marker line
Stored(c) == [kind |-> "component", obj |-> c, type_id |-> <<>>]
Placeholder(identifier) == [kind |-> "placeholder", obj |-> None, type_id |-> identifier]

\* the stored components in the returned list, in the order returned
RECURSIVE ObjectsOf(_)
ObjectsOf(list) ==
    IF list = <<>> THEN <<>>
    ELSE (IF Head(list).kind = "component" THEN <<Head(list).obj>> ELSE <<>>)
         \o ObjectsOf(Tail(list))

\* an inner loop without the break: the last stored component of the name
FirstMatch_Last(components, nm, layout_item) ==
    LET hits == {i \in DOMAIN components : nm[components[i]] = layout_item}
    IN  IF hits = {} THEN 0 ELSE Max(hits)

\* the inner loop of the first pass: the index of the first stored component
\* named layout_item, 0 when the loop ends without a break
FirstMatch(components, nm, layout_item) ==
    LET hits == {i \in DOMAIN components : nm[components[i]] = layout_item}
    IN  IF hits = {} THEN 0 ELSE Min(hits)

\* the first pass over self.layout_items; st = [cmps, titles]
RECURSIVE MatchComponents(_, _, _, _, _)
MatchComponents(items, components, nm, directives, st) ==
    IF items = <<>> THEN st
    ELSE LET k == FirstMatch(components, nm, Head(items))
             next == IF k = 0 THEN st
                     ELSE [cmps |-> Append(st.cmps, Stored(components[k])),
                           titles |-> _apply_layout_directive(
                                        directives, components[k], nm, st.titles)]
         IN  MatchComponents(Tail(items), components, nm, directives, next)

\* list.insert(index, x), index counted from 0
ListInsert(s, index, x) ==
    IF index >= Len(s) THEN Append(s, x)
    ELSE SubSeq(s, 1, index) \o <<x>> \o SubSeq(s, index + 1, Len(s))

\* the marker a layout line stands for, <<>> when it stands for none
MarkerOf(layout_item) ==
    IF Contains(layout_item, SEPARATOR_IDENTIFIER) THEN SEPARATOR_IDENTIFIER
    ELSE IF Contains(layout_item, SLIDEOUT_IDENTIFIER) THEN SLIDEOUT_IDENTIFIER
    ELSE <<>>

\* a test that also takes the marker of the last line
InsertsMarker_AlsoLast(layout_item, i_index, last_item_index) ==
    MarkerOf(layout_item) # <<>>

\* "IDENTIFIER in layout_item and i_index < last_item_index"
InsertsMarker(layout_item, i_index, last_item_index) ==
    MarkerOf(layout_item) # <<>> /\ i_index < last_item_index

\* the second pass: i_index runs over the layout lines from 0
RECURSIVE InsertMarkers(_, _, _)
InsertMarkers(items, i_index, cmps) ==
    IF i_index > Len(items) - 1 THEN cmps
    ELSE LET layout_item == items[i_index + 1]
             last_item_index == Len(items) - 1
         IN  InsertMarkers(items, i_index + 1,
                IF InsertsMarker(layout_item, i_index, last_item_index)
                THEN ListInsert(cmps, i_index, Placeholder(MarkerOf(layout_item)))
                ELSE cmps)

\* GenericUIContainer._get_components_per_layout: the list returned and the
\* ui_title of every component afterwards
_get_components_per_layout(components, nm, titles, lines, items) ==
    IF Truthy(items) /\ components # <<>>
    THEN LET matched == MatchComponents(items[1], components, nm,
                            get_layout_directives(lines),
                            [cmps |-> <<>>, titles |-> titles])
         IN  [cmps |-> InsertMarkers(items[1], 0, matched.cmps),
              titles |-> matched.titles]
    ELSE [cmps |-> [i \in DOMAIN components |-> Stored(components[i])],
          titles |-> titles]

\* the class of a component and isinstance(component, cmp_type)
ClassOf(c) == IF is_container(c) THEN "GenericUIContainer" ELSE "GenericUICommand"

IsInstance(c, cmp_type) ==
    cmp_type \in {ClassOf(c), "GenericUIComponent", "GenericComponent"}

\* GenericUIContainer.get_components_of_type
RECURSIVE get_components_of_type(_, _, _)
RECURSIVE OfTypeIn(_, _, _)

OfTypeIn(sub, comps, cmp_type) ==
    IF comps = <<>> THEN <<>>
    ELSE (IF IsInstance(Head(comps), cmp_type) THEN <<Head(comps)>>
          ELSE IF is_container(Head(comps))
          THEN get_components_of_type(sub, Head(comps), cmp_type)
          ELSE <<>>)
         \o OfTypeIn(sub, Tail(comps), cmp_type)

\* a collection that walks the panel as the iteration yields it
get_components_of_type_Iterating(sub, n, cmp_type) ==
    OfTypeIn(sub,
             IF n = "panel"
             THEN ObjectsOf(_get_components_per_layout(
                                get_components(sub, n), name, ui_title,
                                layout, layout_items).cmps)
             ELSE get_components(sub, n),
             cmp_type)

get_components_of_type(sub, n, cmp_type) ==
    OfTypeIn(sub, get_components(sub, n), cmp_type)

\* GenericUIContainer.contains: True when found, otherwise the method falls
\* off its end and returns None
contains(components, nm, item_name) ==
    IF \E i \in DOMAIN components : nm[components[i]] = item_name
    THEN TRUE ELSE None

\* ------------------------------------------------ state machine
Init ==
    /\ module_paths = [n \in Nodes |-> <<>>]
    /\ _sub_components = [n \in Containers |-> <<>>]
    /\ last = "__init__"
    /\ name = [n \in Nodes |-> <<>>]
    /\ ui_title = [n \in Nodes |-> <<>>]
    /\ layout = Nothing
    /\ layout_items = Nothing
    /\ ret = Nothing
    /\ NoDirState

AddSearchPath(n, path) ==
    /\ module_paths' = add_search_path(module_paths, _sub_components, n, path)
    /\ last' = "add_search_path"
    /\ UNCHANGED <<_sub_components, layoutVars, dirVars>>

RemoveSearchPath(n, path) ==
    /\ module_paths' = remove_search_path(module_paths, _sub_components, n, path)
    /\ last' = "remove_search_path"
    /\ UNCHANGED <<_sub_components, layoutVars, dirVars>>

\* the parser hands add_component a component it has just created: one that
\* is not stored anywhere yet and is not the root of the receiver's own tree
AddComponent(n, comp) ==
    /\ ~HasParent(_sub_components, comp)
    /\ n \notin Subtree(_sub_components, comp)
    /\ module_paths' = add_component_paths(module_paths, _sub_components, n, comp)
    /\ _sub_components' = add_component_list(_sub_components, n, comp)
    /\ last' = "add_component"
    /\ UNCHANGED <<layoutVars, dirVars>>

Next ==
    \/ \E n \in Nodes, path \in PathArgs : AddSearchPath(n, path)
    \/ \E n \in Nodes, path \in PathArgs : RemoveSearchPath(n, path)
    \/ \E n \in Containers, comp \in Nodes : AddComponent(n, comp)

Spec == Init /\ [][Next]_vars

\* ------------------------------------------------ the iterated container
\* One container ("panel") is initialised from its directory, the parser adds
\* the components it finds there, and callers iterate the container.
ButtonIds == <<"b1", "b2", "b3", "b4", "b5">>
Buttons == {ButtonIds[i] : i \in 1..MaxComponents}
LayoutNodes == {"panel"} \cup Buttons

NAME_A == <<"A">>
NAME_B == <<"B">>
NAME_C == <<"C">>
Names == {NAME_A, NAME_B, NAME_C}

\* the lines a layout file is made of
LayoutLines ==
    { NAME_A, NAME_B, SEPARATOR_IDENTIFIER, SLIDEOUT_IDENTIFIER,
      NAME_A \o <<"[">> \o TITLE \o <<":", "X", "]">> }

RECURSIVE SeqsUpTo(_, _)
SeqsUpTo(S, n) ==
    IF n = 0 THEN {<<>>}
    ELSE LET shorter == SeqsUpTo(S, n - 1)
         IN  shorter \cup {Append(s, x) : s \in {q \in shorter : Len(q) = n - 1}, x \in S}

\* file.read().splitlines() of every layout file of MaxLayoutLines lines or fewer
LayoutFiles == SeqsUpTo(LayoutLines, MaxLayoutLines)

\* GenericUIContainer.__init__ followed by __init_from_dir__ on a directory
\* without lib and bin; _read_layout_file leaves layout and layout_items
\* None when the directory has no layout file
InitLayout ==
    /\ module_paths = [n \in LayoutNodes |-> <<>>]
    /\ _sub_components = [n \in Containers |-> <<>>]
    /\ last = "__init_from_dir__"
    /\ name = [n \in LayoutNodes |-> IF n = "panel" THEN <<"p">> ELSE <<>>]
    /\ ui_title = [n \in LayoutNodes |-> IF n = "panel" THEN <<"p">> ELSE <<>>]
    /\ \/ layout = Nothing /\ layout_items = Nothing
       \/ \E lines \in LayoutFiles :
            /\ layout = Some(lines)
            /\ layout_items = Some(_remove_layout_directives(lines))
    /\ ret = Nothing
    /\ NoDirState

\* the parser initialises the next component from a directory named nm and
\* hands it to add_component
AddNamedComponent(i, nm) ==
    LET comp == ButtonIds[i]
    IN  /\ Len(_sub_components["panel"]) = i - 1
        /\ name' = [name EXCEPT ![comp] = nm]
        /\ ui_title' = [ui_title EXCEPT ![comp] = nm]
        /\ module_paths' =
                add_component_paths(module_paths, _sub_components, "panel", comp)
        /\ _sub_components' = add_component_list(_sub_components, "panel", comp)
        /\ last' = "add_component"
        /\ ret' = Nothing
        /\ UNCHANGED <<layout, layout_items, dirVars>>

\* an iteration that stores the list it returns as the child list
Iterate_Pruning ==
    LET r == _get_components_per_layout(
                get_components(_sub_components, "panel"), name, ui_title,
                layout, layout_items)
    IN  /\ ret' = Some(r.cmps)
        /\ ui_title' = r.titles
        /\ last' = "__iter__"
        /\ _sub_components' = [_sub_components EXCEPT !["panel"] = ObjectsOf(r.cmps)]
        /\ UNCHANGED <<module_paths, name, layout, layout_items, dirVars>>

\* GenericUIContainer.__iter__
Iterate ==
    LET r == _get_components_per_layout(
                get_components(_sub_components, "panel"), name, ui_title,
                layout, layout_items)
    IN  /\ ret' = Some(r.cmps)
        /\ ui_title' = r.titles
        /\ last' = "__iter__"
        /\ UNCHANGED <<module_paths, _sub_components, name, layout, layout_items,
                       dirVars>>

NextLayout ==
    \/ \E i \in 1..MaxComponents, nm \in Names : AddNamedComponent(i, nm)
    \/ Iterate

SpecLayout == InitLayout /\ [][NextLayout]_vars

TypeOK ==
    /\ \A n \in DOMAIN module_paths : Range(module_paths[n]) \subseteq Paths
    /\ \A n \in Containers :
            Range(_sub_components[n]) \subseteq DOMAIN module_paths
    /\ ret # Nothing =>
            \A i \in DOMAIN ret[1] : ret[1][i].kind \in {"component", "placeholder"}

\* no list of the tree ever holds a path twice
NoDuplicatePaths ==
    \A n \in Nodes : \A p \in Paths : Count(module_paths[n], p) <= 1

\* every path of a container is a path of each of its stored children
Inherits(mp, sub) ==
    \A n \in Containers : \A c \in Children(sub, n) :
        Range(mp[n]) \subseteq Range(mp[c])

IsPrefix(s, t) == Len(s) <= Len(t) /\ SubSeq(t, 1, Len(s)) = s

\* p is held by no node of the subtree of n
Absent(mp, sub, n, p) == \A d \in Subtree(sub, n) : ~has_search_path(mp, d, p)

\* ------------------------------------------------------------- claims

\* C1: after any sequence of add_component, add_search_path and
\* remove_search_path calls on any nodes, every path in a container's
\* module_paths is also in the module_paths of each of its stored children.
C1_InheritanceInvariant == Inherits(module_paths, _sub_components)

\* C2: on every tree the calls produce (no list holds a path twice), calling
\* add_search_path(p) twice on a container leaves exactly one occurrence of
\* p in the module_paths of the container and of every descendant, and the
\* second call changes no list.
AddedTwice(mp, sub, n, p) ==
    LET once == add_search_path(mp, sub, n, p)
        twice == add_search_path(once, sub, n, p)
    IN  /\ twice = once
        /\ \A d \in Subtree(sub, n) : Count(twice[d], p) = 1

C2_AddIdempotent ==
    \A n \in Containers : \A p \in Paths :
        AddedTwice(module_paths, _sub_components, n, p)

\* C3: add_component(c) adds every path of the container to c and to all of
\* c's descendants and appends c as the last stored child; the paths c had
\* keep their positions ahead of the inherited ones; the lists of the nodes
\* outside c's subtree and the other child lists are unchanged.
ComponentAdded(n) ==
    LET c == _sub_components'[n][Len(_sub_components'[n])]
    IN  /\ _sub_components'[n] = Append(_sub_components[n], c)
        /\ \A m \in Containers \ {n} : _sub_components'[m] = _sub_components[m]
        /\ \A d \in Subtree(_sub_components, c) :
                Range(module_paths[n]) \subseteq Range(module_paths'[d])
        /\ IsPrefix(module_paths[c], module_paths'[c])
        /\ Range(module_paths'[c]) =
                Range(module_paths[c]) \cup Range(module_paths[n])
        /\ \A m \in Nodes \ Subtree(_sub_components, c) :
                module_paths'[m] = module_paths[m]

C3_AddComponent ==
    [][last' = "add_component" =>
        \A n \in Containers :
            _sub_components'[n] # _sub_components[n] => ComponentAdded(n)]_vars

\* C4: remove_search_path(p) on a container that holds p removes p from the
\* container and from every descendant that holds it; on a container that
\* does not hold p, or with an empty p, it changes no list.
PathRemoved(n, p) ==
    IF p # NoPath /\ has_search_path(module_paths, n, p)
    THEN \A d \in Subtree(_sub_components, n) :
            ~has_search_path(module_paths', d, p)
    ELSE module_paths' = module_paths

C4_RemoveRecursive ==
    [][\A n \in Containers : \A p \in PathArgs :
        RemoveSearchPath(n, p) => PathRemoved(n, p)]_vars

\* The statements of C2, C3 and C4 do hold of every call that starts on a
\* tree in which the inheritance of C1 is intact.
OnInheritingTrees ==
    [][Inherits(module_paths, _sub_components) =>
        /\ C2_AddIdempotent
        /\ last' = "add_component" =>
             \A n \in Containers :
                _sub_components'[n] # _sub_components[n] => ComponentAdded(n)
        /\ \A n \in Containers : \A p \in PathArgs :
             RemoveSearchPath(n, p) => PathRemoved(n, p)]_vars

\* add_search_path(p) on n directly followed by remove_search_path(p) on n
AddThenRemove(mp, sub, n, p) ==
    remove_search_path(add_search_path(mp, sub, n, p), sub, n, p)

\* C5 as stated: add_search_path(p) on a container followed by
\* remove_search_path(p) on the same container leaves every list as it was
\* before the add, for every tree state and path.
C5_RemoveInvertsAdd_Original ==
    \A n \in Containers : \A p \in PathArgs :
        AddThenRemove(module_paths, _sub_components, n, p) = module_paths

\* C5, amended: add_search_path(p) followed by remove_search_path(p) on the
\* same container restores every list when, before the add, neither the
\* container nor any of its descendants held p.
C5_RemoveInvertsAdd ==
    \A n \in Containers : \A p \in PathArgs :
        Absent(module_paths, _sub_components, n, p) =>
            AddThenRemove(module_paths, _sub_components, n, p) = module_paths

\* a container with a stored child, both holding another path already, to
\* which the add brings a new path that reaches the child
C5_Witness ==
    \E n \in Containers : \E p \in Paths :
        /\ _sub_components[n] # <<>>
        /\ Absent(module_paths, _sub_components, n, p)
        /\ \A d \in Subtree(_sub_components, n) : module_paths[d] # <<>>
        /\ \A d \in Subtree(_sub_components, n) :
            has_search_path(
                add_search_path(module_paths, _sub_components, n, p), d, p)

\* ------------------------------------------------ claims on iteration
Kids == get_components(_sub_components, "panel")
Items == layout_items[1]
Out == ret[1]
Iterated == last = "__iter__"

PlaceholdersIn(list) == {i \in DOMAIN list : list[i].kind = "placeholder"}

NamesOf(objs) == [i \in DOMAIN objs |-> name[objs[i]]]

IsStoredName(x) == \E i \in DOMAIN Kids : name[Kids[i]] = x

\* the layout lines that name a stored component, in layout order
RECURSIVE ListedNames(_)
ListedNames(items) ==
    IF items = <<>> THEN <<>>
    ELSE (IF IsStoredName(Head(items)) THEN <<Head(items)>> ELSE <<>>)
         \o ListedNames(Tail(items))

\* a sequence without the repetitions of its elements
RECURSIVE FirstSeen(_)
FirstSeen(s) ==
    IF s = <<>> THEN <<>>
    ELSE LET front == FirstSeen(SubSeq(s, 1, Len(s) - 1))
         IN  IF s[Len(s)] \in Range(front) THEN front ELSE Append(front, s[Len(s)])

\* the stored component that is the first of its name
IsFirstOfName(i) == \A j \in 1..(i - 1) : name[Kids[j]] # name[Kids[i]]

\* C6 as stated: with a non-empty layout, iteration yields the stored children
\* whose names are listed (each of them, and no other), in the order their
\* names appear in the layout.
C6_LayoutOrder_Original ==
    (Iterated /\ Truthy(layout_items)) =>
        /\ \A i \in DOMAIN Kids :
                name[Kids[i]] \in Range(Items) <=> Kids[i] \in Range(ObjectsOf(Out))
        /\ NamesOf(ObjectsOf(Out)) = ListedNames(Items)

\* the first stored child of a name
FirstOfName(x) == Kids[CHOOSE i \in DOMAIN Kids : name[Kids[i]] = x /\ IsFirstOfName(i)]

NoRepeatedLine(items) == \A i, j \in DOMAIN items : items[i] = items[j] => i = j

\* C6, amended: with a non-empty layout, iteration yields only stored
\* children whose names are listed, and among them the first stored child of
\* every listed name; the names come in the order of their first appearance
\* in the layout; children whose names are not listed are not yielded, names
\* that match no child contribute nothing.  When no line of the layout is
\* repeated, the yielded children are exactly the first stored child of each
\* listed name, one per line, in layout order.
C6_LayoutOrder ==
    (Iterated /\ Truthy(layout_items)) =>
        /\ \A c \in Range(ObjectsOf(Out)) :
                c \in Range(Kids) /\ name[c] \in Range(Items)
        /\ \A i \in DOMAIN Kids :
                (name[Kids[i]] \in Range(Items) /\ IsFirstOfName(i))
                    => Kids[i] \in Range(ObjectsOf(Out))
        /\ FirstSeen(NamesOf(ObjectsOf(Out))) = FirstSeen(ListedNames(Items))
        /\ NoRepeatedLine(Items) =>
                ObjectsOf(Out) = [k \in DOMAIN ListedNames(Items) |->
                                    FirstOfName(ListedNames(Items)[k])]

\* a layout that reverses two stored children and leaves a third out
C6_Witness ==
    /\ Iterated /\ Truthy(layout_items)
    /\ \E i, j \in DOMAIN Kids :
        /\ i < j
        /\ ObjectsOf(Out) = <<Kids[j], Kids[i]>>
    /\ \E i \in DOMAIN Kids : name[Kids[i]] \notin Range(Items)

\* C7: iterating never changes the stored child list: get_components()
\* returns the same children in the same order afterwards, and every stored
\* child, listed in the layout or not, is still found by contains(name) and
\* returned by get_components_of_type.
C7_IterationKeepsStorage ==
    [][last' = "__iter__" =>
        /\ _sub_components' = _sub_components
        /\ name' = name
        /\ \A i \in DOMAIN Kids :
            /\ contains(get_components(_sub_components', "panel"), name',
                        name[Kids[i]]) = TRUE
            /\ Kids[i] \in Range(get_components_of_type(
                                    _sub_components', "panel", "GenericUICommand"))]_vars

\* an iteration that left a stored child out of the list it returned
C7_Witness ==
    /\ Iterated /\ Truthy(layout_items)
    /\ Out # <<>>
    /\ \E i \in DOMAIN Kids :
        /\ name[Kids[i]] \notin Range(Items)
        /\ Kids[i] \notin Range(ObjectsOf(Out))
        /\ contains(Kids, name, name[Kids[i]]) = TRUE

\* C8: in layout-ordered iteration no stored child appears more than once in
\* the yielded sequence, also when its name is on several layout lines.
C8_ConsumedOnce ==
    Iterated => \A i \in DOMAIN Kids : Count(Out, Stored(Kids[i])) <= 1

\* the marker lines that are not the last line, numbered from 0
MarkerLines ==
    {i \in 0..(Len(Items) - 2) :
        \/ Contains(Items[i + 1], SEPARATOR_IDENTIFIER)
        \/ Contains(Items[i + 1], SLIDEOUT_IDENTIFIER)}

MarkerTypeAt(i) ==
    IF Contains(Items[i + 1], SEPARATOR_IDENTIFIER)
    THEN SEPARATOR_IDENTIFIER ELSE SLIDEOUT_IDENTIFIER

\* where list.insert(i, ...) puts the placeholder of line i: the list holds
\* the matched children and the placeholders of the marker lines above
InsertedAt(i) ==
    LET length == Len(ListedNames(Items))
                    + Cardinality({j \in MarkerLines : j < i})
    IN  IF i < length THEN i ELSE length

MarkersSpliced ==
    /\ \A i \in MarkerLines :
        /\ InsertedAt(i) + 1 \in DOMAIN Out
        /\ Out[InsertedAt(i) + 1] = Placeholder(MarkerTypeAt(i))
    /\ Cardinality(PlaceholdersIn(Out)) = Cardinality(MarkerLines)

\* children [A, B, C] with layout ["B", "---", "A"]
IsExample ==
    /\ NamesOf(Kids) = <<NAME_A, NAME_B, NAME_C>>
    /\ layout = Some(<<NAME_B, SEPARATOR_IDENTIFIER, NAME_A>>)

ExampleResult ==
    IsExample =>
        Out = <<Stored(Kids[2]), Placeholder(SEPARATOR_IDENTIFIER), Stored(Kids[1])>>

\* C9 as stated: for every layout line at index i that holds a marker and is
\* not the last line, a placeholder of that marker type is inserted at index
\* i of the output list (past the end: appended); a marker on the last line
\* is never inserted; children [A, B, C] with layout ["B", "---", "A"] yield
\* [B, separator, A].
C9_MarkerSplicing_Original ==
    (Iterated /\ Truthy(layout_items)) => (MarkersSpliced /\ ExampleResult)

\* C9, amended: the same, for a container that has at least one stored
\* child; a container without stored children yields the empty list,
\* whatever markers its layout holds.
C9_MarkerSplicing ==
    /\ (Iterated /\ Truthy(layout_items) /\ Kids # <<>>)
            => (MarkersSpliced /\ ExampleResult)
    /\ (Iterated /\ Kids = <<>>) => Out = <<>>

\* the example of the claim has been iterated
C9_Witness == Iterated /\ IsExample /\ Cardinality(PlaceholdersIn(Out)) = 1

\* C10: without a layout file, or with an empty one, iteration yields exactly
\* the stored children in insertion order, with no placeholder.
C10_NoLayout ==
    (Iterated /\ (layout_items = Nothing \/ layout_items = Some(<<>>))) =>
        /\ ObjectsOf(Out) = Kids
        /\ PlaceholdersIn(Out) = {}
        /\ Len(Out) = Len(Kids)

\* an empty layout file, and three stored children iterated
C10_Witness ==
    /\ Iterated
    /\ layout = Some(<<>>) /\ layout_items = Some(<<>>)
    /\ Len(Kids) >= 3
    /\ ObjectsOf(Out) = Kids

\* ------------------------------------------------ layouts with directives
\* the longest layout file with directive lines
MaxTitleLines == 2

\* lines with and without a bracketed directive
TitleLines ==
    { NAME_A, NAME_B,
      NAME_A \o <<"[">> \o TITLE \o <<":", "X", "]">>,
      NAME_A \o <<"[">> \o TITLE \o <<":", " ", "Y", "]">>,
      NAME_A \o <<"[", "x", ":", "Y", "]">>,
      NAME_B \o <<"[">> \o TITLE \o <<":", "X", ":", "Y", "]">> }

TitleFiles == SeqsUpTo(TitleLines, MaxTitleLines)

\* __init_from_dir__ on a directory whose layout file holds directive lines
InitTitle ==
    /\ module_paths = [n \in LayoutNodes |-> <<>>]
    /\ _sub_components = [n \in Containers |-> <<>>]
    /\ last = "__init_from_dir__"
    /\ name = [n \in LayoutNodes |-> IF n = "panel" THEN <<"p">> ELSE <<>>]
    /\ ui_title = [n \in LayoutNodes |-> IF n = "panel" THEN <<"p">> ELSE <<>>]
    /\ \/ layout = Nothing /\ layout_items = Nothing
       \/ \E lines \in TitleFiles :
            /\ layout = Some(lines)
            /\ layout_items = Some(_remove_layout_directives(lines))
    /\ ret = Nothing
    /\ NoDirState

SpecTitle == InitTitle /\ [][NextLayout]_vars

\* ------------------------------------------------ claims on directives
\* a line read as name[directive: value]: the name ends at the first '[',
\* the directive at the first ':' after it, the value at the last ']'
FormOpen(s) == Min(Positions(s, "["))
FormColon(s) == Min({j \in Positions(s, ":") : j > FormOpen(s)})
FormClose(s) == Max(Positions(s, "]"))

HasForm(s) ==
    /\ Positions(s, "[") # {}
    /\ FormOpen(s) >= 2
    /\ \E j \in Positions(s, ":") : j > FormOpen(s) + 1
    /\ Positions(s, "]") # {}
    /\ FormClose(s) > FormColon(s)

FormName(s) == SubSeq(s, 1, FormOpen(s) - 1)
FormDirective(s) == Strip(Lower(SubSeq(s, FormOpen(s) + 1, FormColon(s) - 1)))
FormValue(s) == Strip(SubSeq(s, FormColon(s) + 1, FormClose(s) - 1))

\* the lines of the layout file that carry a directive for a name
DirectiveLinesFor(x) ==
    {k \in DOMAIN layout[1] : HasForm(layout[1][k]) /\ FormName(layout[1][k]) = x}

\* the child is the one the layout matches for its name
IsMatched(i) ==
    Truthy(layout_items) /\ IsFirstOfName(i) /\ name[Kids[i]] \in Range(Items)

Retitled(i, lines) ==
    LET c == Kids[i]
    IN  IF IsMatched(i) /\ (DirectiveLinesFor(name[c]) \cap lines) # {}
        THEN LET first == layout[1][Min(DirectiveLinesFor(name[c]) \cap lines)]
             IN  FormDirective(first) = TITLE => ui_title'[c] = FormValue(first)
        ELSE ui_title'[c] = ui_title[c]

\* C11: when a layout line has the form name[title: value] and a stored
\* child named name is matched during iteration, the child's ui_title becomes
\* value, the first directive for the name winning; a matched child whose
\* name has no directive line keeps its ui_title, and a child the layout does
\* not match is never retitled.
C11_TitleDirective ==
    [][last' = "__iter__" =>
        \A i \in DOMAIN Kids : Retitled(i, DOMAIN layout[1])]_vars

\* the value of a directive holds no ':'
PlainValue(s) == HasForm(s) => \A j \in Positions(s, ":") : j <= FormColon(s)

\* C11 holds of the layouts in which no directive value holds a ':'
OnPlainValues ==
    [][(last' = "__iter__" /\ layout # Nothing
            /\ \A k \in DOMAIN layout[1] : PlainValue(layout[1][k])) =>
        \A i \in DOMAIN Kids : Retitled(i, DOMAIN layout[1])]_vars

\* ------------------------------------------------ components from directories
\* os.path.sep
SEP == "/"

\* pyrevit.extensions constants
EXTENSION_POSTFIX == <<".", "e", "x", "t", "e", "n", "s", "i", "o", "n">>
TAB_POSTFIX == <<".", "t", "a", "b">>
PANEL_POSTFIX == <<".", "p", "a", "n", "e", "l">>
UNIQUE_ID_SEPARATOR == <<"-">>
COMP_LIBRARY_DIR_NAME == <<"l", "i", "b">>
COMP_BIN_DIR_NAME == <<"b", "i", "n">>

PyRevitException == "PyRevitException"

\* str.endswith
EndsWith(s, suffix) ==
    Len(s) >= Len(suffix) /\ SubSeq(s, Len(s) - Len(suffix) + 1, Len(s)) = suffix

\* str.split(sep)
RECURSIVE Split(_, _)
Split(s, sep) ==
    LET at == Positions(s, sep)
    IN  IF at = {} THEN <<s>>
        ELSE <<SubSeq(s, 1, Min(at) - 1)>> \o Split(SubSeq(s, Min(at) + 1, Len(s)), sep)

\* os.path.join of a directory and a name
Join(dir, file_name) == dir \o <<SEP>> \o file_name

\* os.path.splitext: the extension starts at the last '.', unless only dots
\* come before it
splitext(dname) ==
    LET dots == Positions(dname, ".")
    IN  IF dots = {} \/ \A i \in 1..(Max(dots) - 1) : dname[i] = "."
        THEN [name |-> dname, ext |-> <<>>]
        ELSE [name |-> SubSeq(dname, 1, Max(dots) - 1),
              ext |-> SubSeq(dname, Max(dots), Len(dname))]

\* the loop of _get_unique_name over the directory names
RECURSIVE Pieces(_, _)
Pieces(dnames, inside_ext) ==
    IF dnames = <<>> THEN <<>>
    ELSE LET dname == Head(dnames)
             inside == inside_ext \/ Contains(dname, EXTENSION_POSTFIX)
         IN  (IF splitext(dname).ext # <<>> /\ inside
              THEN <<splitext(dname).name>> ELSE <<>>)
             \o Pieces(Tail(dnames), inside)

\* sep.join(pieces)
RECURSIVE JoinWith(_, _)
JoinWith(sep, pieces) ==
    IF pieces = <<>> THEN <<>>
    ELSE IF Len(pieces) = 1 THEN pieces[1]
    ELSE pieces[1] \o sep \o JoinWith(sep, Tail(pieces))

\* the characters coreutils.cleanup_string takes out of a string
DisallowedChars == {" "}

\* coreutils.cleanup_string(s, skip=...)
cleanup_string(s, skip) ==
    SelectSeq(s, LAMBDA ch : ch \notin (DisallowedChars \ skip))

\* GenericUIComponent._get_unique_name
_get_unique_name(dir_str) ==
    Lower(cleanup_string(
            JoinWith(UNIQUE_ID_SEPARATOR, Pieces(Split(dir_str, SEP), FALSE)),
            {UNIQUE_ID_SEPARATOR[1]}))

\* a suffix test that does not lower the path
HasTypeSuffix_CaseSensitive(ext_dir, suffix) == EndsWith(ext_dir, suffix)

\* "ext_dir.lower().endswith(self.type_id)"
HasTypeSuffix(ext_dir, suffix) == EndsWith(Lower(ext_dir), suffix)

\* the search paths GenericUIComponent.__init_from_dir__ appends: lib when
\* the directory has one, then bin when it has one
init_module_paths(paths, ext_dir, has_lib, has_bin) ==
    paths \o (IF has_lib THEN <<Join(ext_dir, COMP_LIBRARY_DIR_NAME)>> ELSE <<>>)
          \o (IF has_bin THEN <<Join(ext_dir, COMP_BIN_DIR_NAME)>> ELSE <<>>)

\* the directories the parser finds
DirPaths ==
    { <<"P", ".", "e", "x", "t", "e", "n", "s", "i", "o", "n", "/", "A", ".", "t", "a", "b">>,
      <<"P", ".", "e", "x", "t", "e", "n", "s", "i", "o", "n", "/", "A", ".", "T", "A", "B">>,
      <<"P", ".", "e", "x", "t", "e", "n", "s", "i", "o", "n", "/", "A", ".", "p", "a", "n", "e", "l">>,
      <<"P", ".", "e", "x", "t", "e", "n", "s", "i", "o", "n", "/", "x", "/", "A", ".", "t", "a", "b">>,
      <<"Q", ".", "e", "x", "t", "e", "n", "s", "i", "o", "n", "/", "A", ".", "t", "a", "b">>,
      <<"P", ".", "e", "x", "t", "e", "n", "s", "i", "o", "n", "/", "A", " ", "B", ".", "t", "a", "b">>,
      <<"P", ".", "e", "x", "t", "e", "n", "s", "i", "o", "n", "/", "A", "B", ".", "t", "a", "b">> }

InitNodes == {"n1", "n2"}

\* two GenericUIComponent objects after __init__, each of a class with its
\* own type_id
InitDir ==
    /\ module_paths = [n \in InitNodes |-> <<>>]
    /\ _sub_components = <<>>
    /\ last = "__init__"
    /\ name = [n \in InitNodes |-> <<>>]
    /\ ui_title = [n \in InitNodes |-> <<>>]
    /\ layout = Nothing /\ layout_items = Nothing /\ ret = Nothing
    /\ type_id \in [InitNodes -> {TAB_POSTFIX, PANEL_POSTFIX}]
    /\ directory = [n \in InitNodes |-> Nothing]
    /\ unique_name = [n \in InitNodes |-> Nothing]
    /\ library_path = [n \in InitNodes |-> Nothing]
    /\ binary_path = [n \in InitNodes |-> Nothing]
    /\ meta_file = <<>> /\ meta = <<>>
    /\ script_file = <<>> /\ config_script_file = <<>>
    /\ min_revit_ver = <<>> /\ max_revit_ver = <<>>
    /\ cmd_context = <<>> /\ doc_string = <<>>
    /\ beta_cmd = <<>> /\ requires_clean_engine = <<>>
    /\ author = <<>> /\ cmd_help_url = <<>>
    /\ args = <<>> /\ raised = Nothing /\ errors = 0
    /\ disk = <<>> /\ HOST_APP = <<>>
    /\ NoLoggerState

\* GenericUIComponent.__init_from_dir__(ext_dir) on a directory that has a
\* lib and a bin subdirectory or not; an object is initialised again only
\* while it holds no search path
InitFromDir(n, ext_dir, has_lib, has_bin) ==
    /\ module_paths[n] = <<>>
    /\ last' = "__init_from_dir__"
    /\ args' = [self |-> n, ext_dir |-> ext_dir]
    /\ IF ~HasTypeSuffix(ext_dir, type_id[n])
       THEN /\ raised' = Some(PyRevitException)
            /\ UNCHANGED <<module_paths, directory, unique_name,
                           library_path, binary_path>>
       ELSE /\ raised' = Nothing
            /\ directory' = [directory EXCEPT ![n] = Some(ext_dir)]
            /\ unique_name' = [unique_name EXCEPT ![n] = Some(_get_unique_name(ext_dir))]
            /\ library_path' = [library_path EXCEPT ![n] =
                    IF has_lib THEN Some(Join(ext_dir, COMP_LIBRARY_DIR_NAME))
                    ELSE Nothing]
            /\ binary_path' = [binary_path EXCEPT ![n] =
                    IF has_bin THEN Some(Join(ext_dir, COMP_BIN_DIR_NAME))
                    ELSE Nothing]
            /\ module_paths' = [module_paths EXCEPT ![n] =
                    init_module_paths(module_paths[n], ext_dir, has_lib, has_bin)]
    /\ UNCHANGED <<_sub_components, layoutVars, type_id, commandVars,
                   errors, disk, HOST_APP,
                   loggerVars>>

NextDir ==
    \E n \in InitNodes, ext_dir \in DirPaths, has_lib, has_bin \in BOOLEAN :
        InitFromDir(n, ext_dir, has_lib, has_bin)

SpecDir == InitDir /\ [][NextDir]_vars

\* ------------------------------------------------ claims on directories
\* C12: any two nodes initialised from directory paths that differ after
\* case-folding (and separator normalisation) have different unique_name
\* values.
C12_UniqueNames ==
    \A a, b \in DOMAIN directory :
        (/\ directory[a] # Nothing /\ directory[b] # Nothing
         /\ Lower(directory[a][1]) # Lower(directory[b][1]))
            => unique_name[a] # unique_name[b]

InitOutcome(n, ext_dir) ==
    IF ~EndsWith(Lower(ext_dir), type_id[n])
    THEN /\ raised' = Some(PyRevitException)
         /\ directory'[n] = directory[n]
         /\ unique_name'[n] = unique_name[n]
         /\ module_paths'[n] = module_paths[n]
    ELSE /\ raised' = Nothing
         /\ directory'[n] = Some(ext_dir)
         /\ unique_name'[n] # Nothing
         /\ unique_name'[n] = Some(_get_unique_name(ext_dir))

\* C13: __init_from_dir__(path) raises PyRevitException when the lower-cased
\* path does not end with the type_id of the node, and then directory,
\* unique_name and module_paths are as before the call; when the suffix
\* matches, directory is path and unique_name is computed.
C13_InitFromDir ==
    [][last' = "__init_from_dir__" => InitOutcome(args'.self, args'.ext_dir)]_vars

\* a call has failed on a node that was initialised before, and another node
\* is initialised from a directory whose suffix is in upper case
C13_Witness ==
    /\ last = "__init_from_dir__" /\ raised = Some(PyRevitException)
    /\ \E a, b \in InitNodes :
        /\ directory[a] # Nothing /\ unique_name[a] # Nothing
        /\ directory[b] # Nothing
        /\ ~EndsWith(directory[b][1], type_id[b])

\* ------------------------------------------------ commands from directories
\* most files the bundle directory of a command holds
MaxFiles == 2

\* pyrevit.extensions constants
PUSH_BUTTON_POSTFIX == <<".", "p", "u", "s", "h", "b", "u", "t", "t", "o", "n">>
PANEL_PUSH_BUTTON_POSTFIX == <<".", "p", "a", "n", "e", "l", "b", "u", "t", "t", "o", "n">>
BUNDLEMATA_POSTFIX == <<"b", "u", "n", "d", "l", "e", ".", "y", "a", "m", "l">>
PYTHON_SCRIPT_POSTFIX == <<"s", "c", "r", "i", "p", "t", ".", "p", "y">>
CSHARP_SCRIPT_POSTFIX == <<"s", "c", "r", "i", "p", "t", ".", "c", "s">>
VB_SCRIPT_POSTFIX == <<"s", "c", "r", "i", "p", "t", ".", "v", "b">>
RUBY_SCRIPT_POSTFIX == <<"s", "c", "r", "i", "p", "t", ".", "r", "b">>
DYNAMO_SCRIPT_POSTFIX == <<"s", "c", "r", "i", "p", "t", ".", "d", "y", "n">>
GRASSHOPPER_SCRIPT_POSTFIX == <<"s", "c", "r", "i", "p", "t", ".", "g", "h">>
CONFIG_SCRIPT_POSTFIX == <<"c", "o", "n", "f", "i", "g", ".", "p", "y">>
PYTHON_SCRIPT_FILE_FORMAT == <<".", "p", "y">>
PYTHON_LANG == "python"
CTX_ZERODOC == <<<<"z", "e", "r", "o", "-", "d", "o", "c">>>>

\* the postfixes __init_from_dir__ hands to _find_bundle_file for the script
SCRIPT_POSTFIXES ==
    << PYTHON_SCRIPT_POSTFIX, CSHARP_SCRIPT_POSTFIX, VB_SCRIPT_POSTFIX,
       RUBY_SCRIPT_POSTFIX, DYNAMO_SCRIPT_POSTFIX, GRASSHOPPER_SCRIPT_POSTFIX >>

\* GenericUICommand._find_bundle_file: the first file of os.listdir that ends
\* with any of the postfixes
_find_bundle_file(dir, listing, file_postfixes) ==
    LET hits == {i \in DOMAIN listing :
                    \E k \in DOMAIN file_postfixes :
                        EndsWith(listing[i], file_postfixes[k])}
    IN  IF hits = {} THEN Nothing ELSE Some(Join(dir, listing[Min(hits)]))

\* GenericUICommand.script_language, for python
script_language(file) ==
    IF file # Nothing /\ EndsWith(file[1], PYTHON_SCRIPT_FILE_FORMAT)
    THEN PYTHON_LANG ELSE "other"

\* os.path.basename
basename(path) == LET parts == Split(path, SEP) IN parts[Len(parts)]

\* values of a descriptor: a string, a list of strings or a mapping
Str(s) == [kind |-> "str", val |-> s]
List(l) == [kind |-> "list", val |-> l]
Map(m) == [kind |-> "map", val |-> m]

\* a descriptor mapping: every key holds Nothing (absent) or Some(value)
NoMeta ==
    [title |-> Nothing, tooltip |-> Nothing, author |-> Nothing,
     authors |-> Nothing, help_url |-> Nothing, min_revit_version |-> Nothing,
     max_revit_version |-> Nothing, beta |-> Nothing, engine |-> Nothing,
     context |-> Nothing]

\* a test that takes every descriptor for empty
HasMeta_Never(m) == FALSE

\* "if self.meta:"
HasMeta(m) == m # NoMeta

\* dict.get(key, default) of the value under a key
Get(entry, default) == IF entry = Nothing THEN default ELSE Some(entry[1].val)

\* dict.get(key, default) of a value that is kept with its kind, a string or
\* a list
GetValue(entry, default) == IF entry = Nothing THEN default ELSE entry

\* "if not value:" of None, '' and []
Falsy(value) == value = Nothing \/ value[1].val = <<>>

TRUE_STR == <<"t", "r", "u", "e">>
FALSE_STR == <<"f", "a", "l", "s", "e">>

\* "value.lower() == 'true'" raises for a value that is no string
CanLower(entry) == entry = Nothing \/ entry[1].kind = "str"
IsTrue(entry) == Lower(IF entry = Nothing THEN FALSE_STR ELSE entry[1].val) = TRUE_STR

\* "self.meta[MDATA_ENGINE].get(...)" raises for a value that is no mapping
CanGet(entry) == entry[1].kind = "map"

\* ';'.join(list)
JoinContext(entry) ==
    IF entry # Nothing /\ entry[1].kind = "list"
    THEN Some(Str(JoinWith(<<";">>, entry[1].val)))
    ELSE entry

\* the metadata attributes of a command after GenericUICommand.__init__
DefaultAttrs ==
    [meta |-> NoMeta, ui_title |-> Nothing, doc_string |-> Nothing,
     author |-> Nothing, cmd_help_url |-> Nothing,
     min_revit_ver |-> Nothing, max_revit_ver |-> Nothing,
     beta_cmd |-> Some(FALSE), requires_clean_engine |-> Some(FALSE),
     cmd_context |-> Nothing, errors |-> 0]

Logged(a) == [a EXCEPT !.errors = @ + 1]

\* "if self.type_id != exts.PANEL_PUSH_BUTTON_POSTFIX: ... else: ..."
ContextOf(type, declared) ==
    IF type # PANEL_PUSH_BUTTON_POSTFIX THEN declared ELSE Some(Str(CTX_ZERODOC[1]))

\* GenericUICommand._read_bundle_metadata: the attributes after the try
\* block; an exception leaves what was assigned before it and logs an error
_read_bundle_metadata(a, yaml, type) ==
    IF yaml.malformed THEN Logged(a)
    ELSE
    LET m == yaml.dict
        a1 == [a EXCEPT !.meta = m]
        a2 == [a1 EXCEPT !.ui_title = Get(m.title, a.ui_title),
                         !.doc_string = Get(m.tooltip, a.doc_string),
                         !.author = GetValue(m.authors, GetValue(m.author, a.author)),
                         !.cmd_help_url = Get(m.help_url, a.cmd_help_url),
                         !.min_revit_ver = Get(m.min_revit_version, a.min_revit_ver),
                         !.max_revit_ver = Get(m.max_revit_version, a.max_revit_ver)]
        a3 == [a2 EXCEPT !.beta_cmd = Some(IsTrue(m.beta))]
        a4 == IF m.engine = Nothing THEN a3
              ELSE [a3 EXCEPT !.requires_clean_engine = Some(IsTrue(m.engine[1].val.clean))]
    IN  IF ~HasMeta(m) THEN a1
        ELSE IF ~CanLower(m.beta) THEN Logged(a2)
        ELSE IF m.engine # Nothing /\ ~CanGet(m.engine) THEN Logged(a3)
        ELSE IF m.engine # Nothing /\ ~CanLower(m.engine[1].val.clean) THEN Logged(a3)
        ELSE [a4 EXCEPT !.cmd_context = ContextOf(type, JoinContext(m.context))]

\* ScriptFileParser.extract_param(param_name, default_value): the value the
\* script declares, default_value when it declares none
extract_param(declared, default_value) ==
    IF declared = Nothing THEN default_value ELSE declared

\* a script that declares nothing
NoParams ==
    [__title__ |-> Nothing, __doc__ |-> Nothing, __author__ |-> Nothing,
     __authors__ |-> Nothing, __helpurl__ |-> Nothing,
     __min_revit_ver__ |-> Nothing,
     __max_revit_ver__ |-> Nothing, __beta__ |-> Nothing,
     __cleanengine__ |-> Nothing, __context__ |-> Nothing]

\* GenericUICommand._read_bundle_metadata_from_python_script
_read_bundle_metadata_from_python_script(a, script, type) ==
    IF script.syntax_error THEN Logged(a)
    ELSE
    LET p == script.params
        extracted_ui_title == extract_param(p.__title__, Nothing)
        custom_docstring == extract_param(p.__doc__, Nothing)
        declared_author == extract_param(p.__author__, Nothing)
    IN  [a EXCEPT
            !.ui_title = IF ~Falsy(extracted_ui_title)
                         THEN Some(extracted_ui_title[1].val) ELSE a.ui_title,
            !.doc_string = IF custom_docstring # Nothing THEN custom_docstring
                           ELSE script.docstring,
            !.author = IF Falsy(declared_author)
                       THEN extract_param(p.__authors__, Nothing)
                       ELSE declared_author,
            !.cmd_help_url = Get(extract_param(p.__helpurl__, Nothing), Nothing),
            !.max_revit_ver = extract_param(p.__max_revit_ver__, Nothing),
            !.min_revit_ver = extract_param(p.__min_revit_ver__, Nothing),
            !.beta_cmd = extract_param(p.__beta__, Nothing),
            !.requires_clean_engine = extract_param(p.__cleanengine__, Some(FALSE)),
            !.cmd_context = ContextOf(type, JoinContext(extract_param(p.__context__, Nothing)))]

\* a test that lets a command without script pass
MissesScript_Never(needs_script, found_script) == FALSE

\* "if needs_script and not self.script_file:"
MissesScript(needs_script, found_script) == needs_script /\ found_script = Nothing

\* an author that stays the list that was declared
JoinAuthors_Never(a) == a

\* "if isinstance(self.author, list): self.author = '\n'.join(self.author)"
JoinAuthors(a) ==
    IF a.author # Nothing /\ a.author[1].kind = "list"
    THEN [a EXCEPT !.author = Some(Str(JoinWith(<<"\n">>, a.author[1].val)))]
    ELSE a

\* GenericUICommand.__init_from_dir__ after the call of the base class: the
\* files found, the attributes and the exception raised
CommandInit(cmd_dir, needs_script, type, d) ==
    LET found_meta == _find_bundle_file(cmd_dir, d.listing, <<BUNDLEMATA_POSTFIX>>)
        a0 == [DefaultAttrs EXCEPT !.ui_title = Some(splitext(basename(cmd_dir)).name)]
        a1 == IF found_meta # Nothing
              THEN _read_bundle_metadata(a0, d.yaml, type)
              ELSE a0
        found_script == _find_bundle_file(cmd_dir, d.listing, SCRIPT_POSTFIXES)
        fails == MissesScript(needs_script, found_script)
        is_python == script_language(found_script) = PYTHON_LANG
        a2 == IF is_python /\ ~HasMeta(a1.meta)
              THEN _read_bundle_metadata_from_python_script(a1, d.script, type)
              ELSE a1
        found_config == _find_bundle_file(cmd_dir, d.listing, <<CONFIG_SCRIPT_POSTFIX>>)
    IN  [meta_file |-> found_meta,
         script_file |-> found_script,
         config_script_file |-> IF fails THEN Nothing
                                ELSE IF found_config = Nothing THEN found_script
                                ELSE found_config,
         adds_directory |-> ~fails /\ is_python,
         attrs |-> IF fails THEN Logged(a1) ELSE JoinAuthors(a2),
         raised |-> IF fails THEN Some(PyRevitException) ELSE Nothing]

\* a test that always finds a config script
has_config_script_Always(c) == TRUE

\* GenericUICommand.has_config_script
has_config_script(c) == config_script_file[c] # script_file[c]

\* int(version)
DIGITS == <<"0", "1", "2", "3", "4", "5", "6", "7", "8", "9">>
DigitOf(ch) == (CHOOSE k \in DOMAIN DIGITS : DIGITS[k] = ch) - 1
RECURSIVE int(_)
int(s) == IF s = <<>> THEN 0 ELSE 10 * int(SubSeq(s, 1, Len(s) - 1)) + DigitOf(s[Len(s)])

\* a comparison of the versions as strings
Below_AsStrings(a, b) ==
    \/ a = <<>> /\ b # <<>>
    \/ a # <<>> /\ b # <<>> /\ DigitOf(a[1]) < DigitOf(b[1])

\* "int(a) < int(b)"
Below(a, b) == int(a) < int(b)

\* GenericUICommand.is_supported
is_supported(host, min_ver, max_ver) ==
    IF min_ver # Nothing /\ min_ver[1] # <<>> /\ Below(host.version, min_ver[1])
    THEN FALSE
    ELSE IF max_ver # Nothing /\ max_ver[1] # <<>> /\ Below(max_ver[1], host.version)
    THEN FALSE
    ELSE TRUE

\* the bundle directories, the files and the file contents of the model
CmdDirs == { <<"P", ".", "e", "x", "t", "e", "n", "s", "i", "o", "n", "/", "B", ".", "p", "u", "s", "h", "b", "u", "t", "t", "o", "n">>, <<"P", ".", "e", "x", "t", "e", "n", "s", "i", "o", "n", "/", "B", ".", "p", "a", "n", "e", "l", "b", "u", "t", "t", "o", "n">> }

BundleFiles ==
    { PYTHON_SCRIPT_POSTFIX, CSHARP_SCRIPT_POSTFIX, CONFIG_SCRIPT_POSTFIX,
      BUNDLEMATA_POSTFIX }

\* os.listdir: the files of a directory in any order
Listings ==
    {l \in SeqsUpTo(BundleFiles, MaxFiles) : \A i, j \in DOMAIN l : l[i] = l[j] => i = j}

VersionStrings == { <<"9">>, <<"1", "0">> }

Descriptors ==
    {[malformed |-> TRUE, dict |-> NoMeta], [malformed |-> FALSE, dict |-> NoMeta]}
    \cup {[malformed |-> FALSE, dict |-> m] : m \in
            { [NoMeta EXCEPT !.tooltip = Some(Str(<<"T">>)), !.context = Some(Str(<<"c", "t", "x">>))],
              [NoMeta EXCEPT !.tooltip = Some(Str(<<"T">>)), !.beta = Some(Str(<<"T", "r", "u", "e">>)),
                             !.engine = Some(Map([clean |-> Some(Str(<<"t", "r", "u", "e">>))])),
                             !.context = Some(List(<<<<"a">>, <<"b">>>>))],
              [NoMeta EXCEPT !.tooltip = Some(Str(<<"T">>)), !.engine = Some(Str(<<"c", "l", "e", "a", "n">>))],
              [NoMeta EXCEPT !.tooltip = Some(Str(<<"T">>)), !.beta = Some(List(<<<<"y", "e", "s">>>>))] }
            \cup {[NoMeta EXCEPT !.min_revit_version = Some(Str(lo)),
                                 !.max_revit_version = Some(Str(hi))] :
                        lo, hi \in VersionStrings}
            \cup {[NoMeta EXCEPT !.min_revit_version = Some(Str(lo))] : lo \in VersionStrings}
            \cup {[NoMeta EXCEPT !.max_revit_version = Some(Str(hi))] : hi \in VersionStrings}}

Scripts ==
    { [syntax_error |-> FALSE, docstring |-> Nothing, params |-> NoParams],
      [syntax_error |-> TRUE, docstring |-> Nothing, params |-> NoParams],
      [syntax_error |-> FALSE, docstring |-> Some(<<"D">>),
       params |-> [NoParams EXCEPT !.__beta__ = Some(TRUE),
                                   !.__context__ = Some(Str(<<"c", "t", "x">>)),
                                   !.__min_revit_ver__ = Some(<<"1", "0">>)]] }

HasFile(listing, postfix) == \E i \in DOMAIN listing : listing[i] = postfix

\* a directory, and what its descriptor and its python script hold when it
\* has them
Disks ==
    {[listing |-> l, yaml |-> y, script |-> s] :
        l \in Listings, y \in Descriptors, s \in Scripts}

\* one GenericUICommand object after __init__, of the push button class or of
\* the panel push button class
InitCmd ==
    /\ module_paths = [c \in Commands |-> <<>>]
    /\ _sub_components = <<>>
    /\ last = "__init__"
    /\ name = [c \in Commands |-> <<>>]
    /\ ui_title = [c \in Commands |-> <<>>]
    /\ layout = Nothing /\ layout_items = Nothing /\ ret = Nothing
    /\ type_id \in [Commands -> {PUSH_BUTTON_POSTFIX, PANEL_PUSH_BUTTON_POSTFIX}]
    /\ directory = [c \in Commands |-> Nothing]
    /\ unique_name = [c \in Commands |-> Nothing]
    /\ library_path = [c \in Commands |-> Nothing]
    /\ binary_path = [c \in Commands |-> Nothing]
    /\ meta_file = [c \in Commands |-> Nothing]
    /\ meta = [c \in Commands |-> DefaultAttrs.meta]
    /\ script_file = [c \in Commands |-> Nothing]
    /\ config_script_file = [c \in Commands |-> Nothing]
    /\ min_revit_ver = [c \in Commands |-> DefaultAttrs.min_revit_ver]
    /\ max_revit_ver = [c \in Commands |-> DefaultAttrs.max_revit_ver]
    /\ cmd_context = [c \in Commands |-> DefaultAttrs.cmd_context]
    /\ doc_string = [c \in Commands |-> DefaultAttrs.doc_string]
    /\ beta_cmd = [c \in Commands |-> DefaultAttrs.beta_cmd]
    /\ requires_clean_engine = [c \in Commands |-> DefaultAttrs.requires_clean_engine]
    /\ author = [c \in Commands |-> DefaultAttrs.author]
    /\ cmd_help_url = [c \in Commands |-> DefaultAttrs.cmd_help_url]
    /\ args = <<>> /\ raised = Nothing /\ errors = 0
    /\ disk \in {d \in Disks :
            /\ ~HasFile(d.listing, BUNDLEMATA_POSTFIX) =>
                    d.yaml = [malformed |-> FALSE, dict |-> NoMeta]
            /\ ~HasFile(d.listing, PYTHON_SCRIPT_POSTFIX) =>
                    d.script = [syntax_error |-> FALSE, docstring |-> Nothing,
                                params |-> NoParams]}
    /\ HOST_APP \in [version : VersionStrings]
    /\ NoLoggerState

\* GenericUICommand.__init_from_dir__(cmd_dir, needs_script) on a fresh
\* object; the bundle directory has no lib and no bin subdirectory
CmdInitFromDir(c, cmd_dir, needs_script) ==
    /\ directory[c] = Nothing
    /\ last' = "__init_from_dir__"
    /\ args' = [self |-> c, ext_dir |-> cmd_dir, needs_script |-> needs_script]
    /\ IF ~HasTypeSuffix(cmd_dir, type_id[c])
       THEN /\ raised' = Some(PyRevitException)
            /\ UNCHANGED <<module_paths, name, ui_title, directory, unique_name,
                           library_path, binary_path, commandVars, errors>>
       ELSE LET r == CommandInit(cmd_dir, needs_script, type_id[c], disk)
                paths == init_module_paths(module_paths[c], cmd_dir, FALSE, FALSE)
            IN  /\ raised' = r.raised
                /\ directory' = [directory EXCEPT ![c] = Some(cmd_dir)]
                /\ unique_name' = [unique_name EXCEPT ![c] = Some(_get_unique_name(cmd_dir))]
                /\ library_path' = [library_path EXCEPT ![c] = Nothing]
                /\ binary_path' = [binary_path EXCEPT ![c] = Nothing]
                /\ name' = [name EXCEPT ![c] = splitext(basename(cmd_dir)).name]
                /\ ui_title' = [ui_title EXCEPT ![c] = r.attrs.ui_title[1]]
                /\ author' = [author EXCEPT ![c] = r.attrs.author]
                /\ cmd_help_url' = [cmd_help_url EXCEPT ![c] = r.attrs.cmd_help_url]
                /\ module_paths' = [module_paths EXCEPT ![c] =
                        IF r.adds_directory /\ cmd_dir \notin Range(paths)
                        THEN Append(paths, cmd_dir) ELSE paths]
                /\ meta_file' = [meta_file EXCEPT ![c] = r.meta_file]
                /\ script_file' = [script_file EXCEPT ![c] = r.script_file]
                /\ config_script_file' = [config_script_file EXCEPT ![c] = r.config_script_file]
                /\ meta' = [meta EXCEPT ![c] = r.attrs.meta]
                /\ doc_string' = [doc_string EXCEPT ![c] = r.attrs.doc_string]
                /\ min_revit_ver' = [min_revit_ver EXCEPT ![c] = r.attrs.min_revit_ver]
                /\ max_revit_ver' = [max_revit_ver EXCEPT ![c] = r.attrs.max_revit_ver]
                /\ beta_cmd' = [beta_cmd EXCEPT ![c] = r.attrs.beta_cmd]
                /\ requires_clean_engine' =
                        [requires_clean_engine EXCEPT ![c] = r.attrs.requires_clean_engine]
                /\ cmd_context' = [cmd_context EXCEPT ![c] = r.attrs.cmd_context]
                /\ errors' = errors + r.attrs.errors
    /\ UNCHANGED <<_sub_components, layout, layout_items, ret, type_id, disk, HOST_APP,
                   loggerVars>>

\* reading the is_supported property of a command
ReadIsSupported(c) ==
    /\ ret' = Some(is_supported(HOST_APP, min_revit_ver[c], max_revit_ver[c]))
    /\ last' = "is_supported"
    /\ raised' = Nothing
    /\ UNCHANGED <<module_paths, _sub_components, name, ui_title, layout,
                   layout_items, componentVars, commandVars, args, errors,
                   disk, HOST_APP,
                   loggerVars>>

NextCmd ==
    \/ \E c \in Commands, cmd_dir \in CmdDirs, needs_script \in BOOLEAN :
            CmdInitFromDir(c, cmd_dir, needs_script)
    \/ \E c \in Commands : ReadIsSupported(c)

SpecCmd == InitCmd /\ [][NextCmd]_vars

CmdTypeOK ==
    \A c \in Commands :
        /\ beta_cmd[c] \in {Nothing, Some(TRUE), Some(FALSE)}
        /\ requires_clean_engine[c] \in {Some(TRUE), Some(FALSE)}
        /\ errors \in 0..2

\* ------------------------------------------------ claims on commands
\* __init_from_dir__ was the last call, on a directory with the suffix of
\* the command's type
Constructing(c) ==
    /\ last = "__init_from_dir__" /\ args.self = c
    /\ EndsWith(Lower(args.ext_dir), type_id[c])

\* ... and it returned
Constructed(c) == Constructing(c) /\ raised = Nothing

IsScript(file_name) ==
    \E k \in DOMAIN SCRIPT_POSTFIXES : EndsWith(file_name, SCRIPT_POSTFIXES[k])

HoldsScript == \E i \in DOMAIN disk.listing : IsScript(disk.listing[i])

\* C14: a command initialised with needs_script=True whose directory holds no
\* file with a supported script postfix fails construction with
\* PyRevitException; no command that completes __init_from_dir__ with
\* needs_script=True has script_file equal to None.
C14_NeedsScript ==
    \A c \in DOMAIN script_file :
        /\ (Constructing(c) /\ args.needs_script /\ ~HoldsScript)
                => raised = Some(PyRevitException)
        /\ (Constructed(c) /\ args.needs_script) => script_file[c] # Nothing

\* a required script is missing from a directory that holds other files
C14_Witness ==
    \E c \in DOMAIN script_file :
        /\ Constructing(c) /\ args.needs_script
        /\ disk.listing # <<>> /\ ~HoldsScript
        /\ raised = Some(PyRevitException)
        /\ script_file[c] = Nothing

\* the file of the first kind, in the order of SCRIPT_POSTFIXES, that the
\* directory holds
RECURSIVE ByPriority(_, _)
ByPriority(listing, file_postfixes) ==
    IF file_postfixes = <<>> THEN Nothing
    ELSE LET hits == {i \in DOMAIN listing : EndsWith(listing[i], Head(file_postfixes))}
         IN  IF hits # {} THEN Some(listing[Min(hits)])
             ELSE ByPriority(listing, Tail(file_postfixes))

\* C15: the primary script file is chosen in the fixed priority order of the
\* kinds (python first, then C#, VB, ruby, dynamo, grasshopper): when the
\* directory holds script files of several kinds, script_file is the file of
\* the highest-priority kind present, whatever the order of the listing.
C15_ScriptPriority ==
    \A c \in DOMAIN script_file :
        (Constructed(c) /\ HoldsScript) =>
            script_file[c] =
                Some(Join(args.ext_dir, ByPriority(disk.listing, SCRIPT_POSTFIXES)[1]))

\* the command has no independent config script when it was constructed
HoldsConfig ==
    \E i \in DOMAIN disk.listing : EndsWith(disk.listing[i], CONFIG_SCRIPT_POSTFIX)

FirstConfig ==
    disk.listing[Min({i \in DOMAIN disk.listing :
                        EndsWith(disk.listing[i], CONFIG_SCRIPT_POSTFIX)})]

\* C16: when the directory holds no independent config script, construction
\* succeeds (the absence raises nothing) with config_script_file equal to
\* script_file and has_config_script() false; when it holds one,
\* config_script_file is that file and has_config_script() is true.
C16_ConfigScript ==
    \A c \in DOMAIN script_file :
        /\ (Constructing(c) /\ raised # Nothing)
                => (args.needs_script /\ ~HoldsScript)
        /\ (Constructed(c) /\ ~HoldsConfig)
                => (config_script_file[c] = script_file[c] /\ ~has_config_script(c))
        /\ (Constructed(c) /\ HoldsConfig)
                => /\ config_script_file[c] = Some(Join(args.ext_dir, FirstConfig))
                   /\ has_config_script(c)

\* a command with a script and no config script, constructed
C16_Witness ==
    \E c \in DOMAIN script_file :
        /\ Constructed(c) /\ ~HoldsConfig /\ HoldsScript
        /\ Len(disk.listing) >= 2
        /\ script_file[c] # Nothing
        /\ config_script_file[c] = script_file[c]

\* the number a version string stands for
VersionNumber(s) == IF s = <<"9">> THEN 9 ELSE 10

Declared(ver) == ver # Nothing

\* the host version is inside the declared bounds, the bounds included
InsideBounds(c) ==
    /\ Declared(min_revit_ver[c]) =>
            VersionNumber(min_revit_ver[c][1]) <= VersionNumber(HOST_APP.version)
    /\ Declared(max_revit_ver[c]) =>
            VersionNumber(HOST_APP.version) <= VersionNumber(max_revit_ver[c][1])

C18_PanelButtonContext ==
    \A c \in DOMAIN script_file :
        (Constructed(c) /\ type_id[c] = PANEL_PUSH_BUTTON_POSTFIX)
            => cmd_context[c] = Some(Str(CTX_ZERODOC[1]))

\* C18 holds of the panel push buttons whose metadata were read to the end,
\* from a descriptor or from a python script
OnReadMetadata ==
    \A c \in DOMAIN script_file :
        (/\ Constructed(c) /\ type_id[c] = PANEL_PUSH_BUTTON_POSTFIX
         /\ errors = 0
         /\ \/ HasMeta(meta[c])
            \/ script_language(script_file[c]) = PYTHON_LANG)
            => cmd_context[c] = Some(Str(CTX_ZERODOC[1]))

\* the script declares no metadata parameter and has no doc-comment
PlainScript ==
    disk.script = [syntax_error |-> FALSE, docstring |-> Nothing, params |-> NoParams]

\* C19: a command with no descriptor file and whose script declares none of
\* the metadata parameters (and has no doc-comment) ends construction with
\* doc_string None, beta_cmd False and requires_clean_engine False.
C19_DefaultFallback ==
    \A c \in DOMAIN script_file :
        (Constructed(c) /\ meta_file[c] = Nothing /\ PlainScript) =>
            /\ doc_string[c] = Nothing
            /\ beta_cmd[c] = Some(FALSE)
            /\ requires_clean_engine[c] = Some(FALSE)

\* C19 holds of the commands whose script is not a python script
OnOtherLanguages ==
    \A c \in DOMAIN script_file :
        (/\ Constructed(c) /\ meta_file[c] = Nothing /\ PlainScript
         /\ script_language(script_file[c]) # PYTHON_LANG) =>
            /\ doc_string[c] = Nothing
            /\ beta_cmd[c] = Some(FALSE)
            /\ requires_clean_engine[c] = Some(FALSE)

\* reading the descriptor raises, or mapping it does
DescriptorRaises ==
    /\ HasFile(disk.listing, BUNDLEMATA_POSTFIX)
    /\ \/ disk.yaml.malformed
       \/ ~CanLower(disk.yaml.dict.beta)
       \/ disk.yaml.dict.engine # Nothing /\ ~CanGet(disk.yaml.dict.engine)

\* the same directory without the descriptor file
WithoutDescriptor ==
    [disk EXCEPT !.listing = SelectSeq(disk.listing, LAMBDA f : f # BUNDLEMATA_POSTFIX)]

AsWithoutDescriptor(c) ==
    LET r == CommandInit(args.ext_dir, args.needs_script, type_id[c], WithoutDescriptor)
    IN  /\ raised = r.raised
        /\ errors = r.attrs.errors + 1
        /\ doc_string[c] = r.attrs.doc_string
        /\ min_revit_ver[c] = r.attrs.min_revit_ver
        /\ max_revit_ver[c] = r.attrs.max_revit_ver
        /\ beta_cmd[c] = r.attrs.beta_cmd
        /\ requires_clean_engine[c] = r.attrs.requires_clean_engine
        /\ cmd_context[c] = r.attrs.cmd_context

\* C20: a malformed descriptor never aborts construction: when reading or
\* mapping the descriptor raises, the exception does not leave
\* __init_from_dir__, exactly one error diagnostic is logged for it, and the
\* node is treated as having no descriptor metadata: its metadata attributes
\* keep their defaults unless script parsing then supplies them.
C20_MalformedDescriptor ==
    \A c \in DOMAIN script_file :
        (Constructing(c) /\ DescriptorRaises) => AsWithoutDescriptor(c)

\* C20 holds of the descriptors that cannot be read
OnUnreadableDescriptors ==
    \A c \in DOMAIN script_file :
        (/\ Constructing(c) /\ HasFile(disk.listing, BUNDLEMATA_POSTFIX)
         /\ disk.yaml.malformed) => AsWithoutDescriptor(c)

\* ------------------------------------------------ claims on the metadata source
\* the attributes __init_from_dir__ would leave if the python script of the
\* directory held s
AttrsWith(c, s) ==
    CommandInit(args.ext_dir, args.needs_script, type_id[c],
                [disk EXCEPT !.script = s]).attrs

\* no attribute of the command comes from the script source: whatever the
\* script holds, the attributes and the diagnostics are the same
ScriptNotRead(c) ==
    \A s \in Scripts :
        /\ ui_title[c] = AttrsWith(c, s).ui_title[1]
        /\ doc_string[c] = AttrsWith(c, s).doc_string
        /\ author[c] = AttrsWith(c, s).author
        /\ cmd_help_url[c] = AttrsWith(c, s).cmd_help_url
        /\ min_revit_ver[c] = AttrsWith(c, s).min_revit_ver
        /\ max_revit_ver[c] = AttrsWith(c, s).max_revit_ver
        /\ beta_cmd[c] = AttrsWith(c, s).beta_cmd
        /\ requires_clean_engine[c] = AttrsWith(c, s).requires_clean_engine
        /\ cmd_context[c] = AttrsWith(c, s).cmd_context
        /\ errors = AttrsWith(c, s).errors

RECURSIVE Replace(_, _, _)
Replace(s, old, new) ==
    IF Len(s) < Len(old) THEN s
    ELSE IF SubSeq(s, 1, Len(old)) = old
    THEN new \o Replace(SubSeq(s, Len(old) + 1, Len(s)), old, new)
    ELSE <<s[1]>> \o Replace(Tail(s), old, new)

\* "liquidtag = '{{' + k + '}}'"
LiquidTag(k) == <<"{", "{">> \o k \o <<"}", "}">>

\* a loop that stops after the first key of the templates
RECURSIVE Substituted_FirstKey(_, _)
Substituted_FirstKey(pval, items) ==
    IF items = <<>> THEN pval
    ELSE IF Contains(pval, LiquidTag(items[1].k))
    THEN Replace(pval, LiquidTag(items[1].k), items[1].v)
    ELSE pval

\* the inner loop of _update_configurable_params: "for k, v in
\* config_dict.items()", the items given in the order of the iteration
RECURSIVE Substituted(_, _)
Substituted(pval, items) ==
    IF items = <<>> THEN pval
    ELSE Substituted(IF Contains(pval, LiquidTag(items[1].k))
                     THEN Replace(pval, LiquidTag(items[1].k), items[1].v)
                     ELSE pval,
                     Tail(items))

\* GenericUICommand.configurable_params
configurable_params == <<"ui_title", "doc_string", "author", "cmd_help_url">>

\* GenericUICommand._update_configurable_params on the values of the
\* configurable parameters, each None or a string: "if pval:" skips None
\* and ''
_update_configurable_params(pvals, items) ==
    [pname \in Range(configurable_params) |->
        IF pvals[pname] # Nothing /\ pvals[pname][1] # <<>>
        THEN Some(Substituted(pvals[pname][1], items))
        ELSE pvals[pname]]

\* getattr(self, pname) of the configurable parameters
ParamsOf(c) ==
    [pname \in Range(configurable_params) |->
        CASE pname = "ui_title" -> Some(ui_title[c])
          [] pname = "doc_string" -> doc_string[c]
          [] pname = "author" ->
                IF author[c] = Nothing THEN Nothing ELSE Some(author[c][1].val)
          [] pname = "cmd_help_url" -> cmd_help_url[c]]

\* GenericUICommand.configure: the configurable parameters afterwards;
\* "if templates:" skips None and the empty mapping
configure(pvals, config_dict) ==
    LET templates == config_dict.templates
    IN  IF Truthy(templates)
        THEN _update_configurable_params(pvals, templates[1])
        ELSE pvals

\* the attributes of a command object
__dict__(n) ==
    [name |-> name[n], ui_title |-> ui_title[n], directory |-> directory[n],
     unique_name |-> unique_name[n], library_path |-> library_path[n],
     binary_path |-> binary_path[n], module_paths |-> module_paths[n],
     meta_file |-> meta_file[n], meta |-> meta[n],
     script_file |-> script_file[n],
     config_script_file |-> config_script_file[n],
     min_revit_ver |-> min_revit_ver[n], max_revit_ver |-> max_revit_ver[n],
     cmd_context |-> cmd_context[n], doc_string |-> doc_string[n],
     beta_cmd |-> beta_cmd[n],
     requires_clean_engine |-> requires_clean_engine[n],
     author |-> author[n], cmd_help_url |-> cmd_help_url[n]]

\* GenericComponent.get_cache_data
get_cache_data(n) == [type_id |-> type_id[n]] @@ __dict__(n)

\* a load that keeps the attributes the object has
load_cache_data_KeepOwn(n, cache_dict) == ([type_id |-> type_id[n]] @@ __dict__(n)) @@ cache_dict

\* GenericComponent.load_cache_data: the attributes of the object
\* afterwards, type_id among them
load_cache_data(n, cache_dict) == cache_dict @@ ([type_id |-> type_id[n]] @@ __dict__(n))

\* the key of the templates in an extension's configuration
EXT_MANIFEST_TEMPLATES_KEY == <<"t", "e", "m", "p", "l", "a", "t", "e", "s">>

KEY_A == <<"a">>
KEY_B == <<"b">>

\* configuration dictionaries: what they hold under the templates key, a
\* mapping written as its items in the order of iteration
Configs ==
    {[templates |-> t] : t \in
        { Nothing, Some(<<>>),
          Some(<<[k |-> KEY_A, v |-> <<"X", "y">>]>>),
          Some(<<[k |-> KEY_A, v |-> <<"X", "y">>], [k |-> KEY_B, v |-> <<>>]>>),
          Some(<<[k |-> KEY_B, v |-> <<"Z">>], [k |-> KEY_A, v |-> <<"X", "y">>]>>) }}

\* the cached object: a fresh object of the class of the command
CachedNodes == {"cached"}

MetaNodes == Commands \cup CachedNodes

MetaListings ==
    { <<PYTHON_SCRIPT_POSTFIX>>, <<BUNDLEMATA_POSTFIX>>,
      <<BUNDLEMATA_POSTFIX, PYTHON_SCRIPT_POSTFIX>> }

AUTHOR_LIST == <<<<"{", "{", "a", "}", "}">>, <<"J">>>>
CONTEXT_LIST == <<<<"W">>, <<"T">>>>

MetaDescriptors ==
    {[malformed |-> FALSE, dict |-> m] : m \in
        { NoMeta,
          [NoMeta EXCEPT !.title = Some(Str(<<"{", "{", "a", "}", "}">>)),
                         !.tooltip = Some(Str(<<"T", "{", "{", "a", "}", "}", "{", "{", "b", "}", "}", "{", "{", "a", "}", "}">>)),
                         !.authors = Some(List(AUTHOR_LIST)),
                         !.help_url = Some(Str(<<"u", "{", "{", "b", "}", "}">>)),
                         !.context = Some(List(CONTEXT_LIST))],
          [NoMeta EXCEPT !.author = Some(Str(<<"{", "{", "a", "}", "}">>)),
                         !.context = Some(Str(<<"c">>))],
          [NoMeta EXCEPT !.author = Some(Str(<<"K">>)),
                         !.authors = Some(List(AUTHOR_LIST))],
          [NoMeta EXCEPT !.authors = Some(List(AUTHOR_LIST)),
                         !.engine = Some(Str(<<"c", "l", "e", "a", "n">>))] }}

MetaScripts ==
    { [syntax_error |-> FALSE, docstring |-> Nothing, params |-> NoParams],
      [syntax_error |-> TRUE, docstring |-> Nothing, params |-> NoParams],
      [syntax_error |-> FALSE, docstring |-> Some(<<"D", "{", "{", "a", "}", "}">>),
       params |-> [NoParams EXCEPT !.__authors__ = Some(List(AUTHOR_LIST)),
                                   !.__context__ = Some(List(CONTEXT_LIST)),
                                   !.__helpurl__ = Some(Str(<<"u">>))]],
      [syntax_error |-> FALSE, docstring |-> Nothing,
       params |-> [NoParams EXCEPT !.__title__ = Some(Str(<<"{", "{", "b", "}", "}">>)),
                                   !.__author__ = Some(Str(<<"K">>)),
                                   !.__authors__ = Some(List(AUTHOR_LIST))]] }

MetaDisks ==
    {[listing |-> l, yaml |-> y, script |-> s] :
        l \in MetaListings, y \in MetaDescriptors, s \in MetaScripts}

\* one command object after __init__ and a second object of its class
InitMeta ==
    /\ module_paths = [c \in MetaNodes |-> <<>>]
    /\ _sub_components = <<>>
    /\ last = "__init__"
    /\ name = [c \in MetaNodes |-> <<>>]
    /\ ui_title = [c \in MetaNodes |-> <<>>]
    /\ layout = Nothing /\ layout_items = Nothing /\ ret = Nothing
    /\ \E type \in {PUSH_BUTTON_POSTFIX, PANEL_PUSH_BUTTON_POSTFIX} :
            type_id = [c \in MetaNodes |-> type]
    /\ directory = [c \in MetaNodes |-> Nothing]
    /\ unique_name = [c \in MetaNodes |-> Nothing]
    /\ library_path = [c \in MetaNodes |-> Nothing]
    /\ binary_path = [c \in MetaNodes |-> Nothing]
    /\ meta_file = [c \in MetaNodes |-> Nothing]
    /\ meta = [c \in MetaNodes |-> DefaultAttrs.meta]
    /\ script_file = [c \in MetaNodes |-> Nothing]
    /\ config_script_file = [c \in MetaNodes |-> Nothing]
    /\ min_revit_ver = [c \in MetaNodes |-> DefaultAttrs.min_revit_ver]
    /\ max_revit_ver = [c \in MetaNodes |-> DefaultAttrs.max_revit_ver]
    /\ cmd_context = [c \in MetaNodes |-> DefaultAttrs.cmd_context]
    /\ doc_string = [c \in MetaNodes |-> DefaultAttrs.doc_string]
    /\ beta_cmd = [c \in MetaNodes |-> DefaultAttrs.beta_cmd]
    /\ requires_clean_engine = [c \in MetaNodes |-> DefaultAttrs.requires_clean_engine]
    /\ author = [c \in MetaNodes |-> DefaultAttrs.author]
    /\ cmd_help_url = [c \in MetaNodes |-> DefaultAttrs.cmd_help_url]
    /\ args = <<>> /\ raised = Nothing /\ errors = 0
    /\ disk \in {d \in MetaDisks :
            /\ ~HasFile(d.listing, BUNDLEMATA_POSTFIX) =>
                    d.yaml = [malformed |-> FALSE, dict |-> NoMeta]
            /\ ~HasFile(d.listing, PYTHON_SCRIPT_POSTFIX) =>
                    d.script = [syntax_error |-> FALSE, docstring |-> Nothing,
                                params |-> NoParams]}
    /\ HOST_APP = [version |-> <<"9">>]
    /\ NoLoggerState

\* GenericUICommand.configure(config_dict) on a command that was
\* constructed
Configure(c, config_dict) ==
    /\ directory[c] # Nothing /\ raised = Nothing
    /\ last' = "configure"
    /\ args' = [self |-> c, config_dict |-> config_dict]
    /\ LET r == configure(ParamsOf(c), config_dict)
       IN  /\ ui_title' = [ui_title EXCEPT ![c] = r.ui_title[1]]
           /\ doc_string' = [doc_string EXCEPT ![c] = r.doc_string]
           /\ author' = [author EXCEPT ![c] =
                    IF r.author = Nothing THEN Nothing ELSE Some(Str(r.author[1]))]
           /\ cmd_help_url' = [cmd_help_url EXCEPT ![c] = r.cmd_help_url]
    /\ UNCHANGED <<module_paths, _sub_components, name, layout, layout_items,
                   ret, componentVars, meta_file, meta, script_file,
                   config_script_file, min_revit_ver, max_revit_ver,
                   cmd_context, beta_cmd, requires_clean_engine, raised,
                   errors, disk, HOST_APP,
                   loggerVars>>

\* cache_dict = c.get_cache_data() on a command that was constructed
GetCacheData(c) ==
    /\ directory[c] # Nothing /\ raised = Nothing
    /\ last' = "get_cache_data"
    /\ args' = [self |-> c]
    /\ ret' = Some(get_cache_data(c))
    /\ UNCHANGED <<module_paths, _sub_components, name, ui_title, layout,
                   layout_items, componentVars, commandVars, raised, errors,
                   disk, HOST_APP,
                   loggerVars>>

\* n.load_cache_data(cache_dict) on the fresh object, with the dictionary
\* get_cache_data returned
LoadCacheData(n) ==
    /\ last = "get_cache_data"
    /\ last' = "load_cache_data"
    /\ args' = [self |-> n, of |-> args.self]
    /\ LET d == load_cache_data(n, ret[1])
       IN  /\ type_id' = [type_id EXCEPT ![n] = d.type_id]
           /\ name' = [name EXCEPT ![n] = d.name]
           /\ ui_title' = [ui_title EXCEPT ![n] = d.ui_title]
           /\ directory' = [directory EXCEPT ![n] = d.directory]
           /\ unique_name' = [unique_name EXCEPT ![n] = d.unique_name]
           /\ library_path' = [library_path EXCEPT ![n] = d.library_path]
           /\ binary_path' = [binary_path EXCEPT ![n] = d.binary_path]
           /\ module_paths' = [module_paths EXCEPT ![n] = d.module_paths]
           /\ meta_file' = [meta_file EXCEPT ![n] = d.meta_file]
           /\ meta' = [meta EXCEPT ![n] = d.meta]
           /\ script_file' = [script_file EXCEPT ![n] = d.script_file]
           /\ config_script_file' = [config_script_file EXCEPT ![n] = d.config_script_file]
           /\ min_revit_ver' = [min_revit_ver EXCEPT ![n] = d.min_revit_ver]
           /\ max_revit_ver' = [max_revit_ver EXCEPT ![n] = d.max_revit_ver]
           /\ cmd_context' = [cmd_context EXCEPT ![n] = d.cmd_context]
           /\ doc_string' = [doc_string EXCEPT ![n] = d.doc_string]
           /\ beta_cmd' = [beta_cmd EXCEPT ![n] = d.beta_cmd]
           /\ requires_clean_engine' = [requires_clean_engine EXCEPT ![n] = d.requires_clean_engine]
           /\ author' = [author EXCEPT ![n] = d.author]
           /\ cmd_help_url' = [cmd_help_url EXCEPT ![n] = d.cmd_help_url]
    /\ UNCHANGED <<_sub_components, layout, layout_items, ret, raised, errors,
                   disk, HOST_APP,
                   loggerVars>>

NextMeta ==
    \/ \E c \in Commands, cmd_dir \in CmdDirs, needs_script \in BOOLEAN :
            CmdInitFromDir(c, cmd_dir, needs_script)
    \/ \E c \in Commands, config_dict \in Configs : Configure(c, config_dict)
    \/ \E c \in Commands : GetCacheData(c)
    \/ \E n \in CachedNodes : LoadCacheData(n)

SpecMeta == InitMeta /\ [][NextMeta]_vars

\* ------------------------------------------------ claims on configured and cached commands
IsList(value) == value # Nothing /\ value[1].kind = "list"

\* the pieces of a list in their order, sep between two neighbours
RECURSIVE InOrder(_, _)
InOrder(l, sep) ==
    IF Len(l) = 0 THEN <<>>
    ELSE IF Len(l) = 1 THEN l[1]
    ELSE InOrder(SubSeq(l, 1, Len(l) - 1), sep) \o sep \o l[Len(l)]

\* the metadata of the command came from the descriptor, or from a python
\* script that could be parsed
FromDescriptor(c) == meta[c] # NoMeta
FromScript(c) ==
    /\ meta[c] = NoMeta
    /\ script_language(script_file[c]) = PYTHON_LANG
    /\ ~disk.script.syntax_error

\* C22: after successful construction of a command author is never a list
\* (a declared list of authors is joined with newlines in declaration
\* order) and cmd_context is never a list (a declared list of contexts is
\* joined with ';' in declaration order), whether the values came from the
\* descriptor or from the script.
C22_ScalarNormalisation ==
    \A c \in Commands :
        Constructed(c) =>
            /\ ~IsList(author[c])
            /\ ~IsList(cmd_context[c])
            /\ (FromDescriptor(c) /\ IsList(meta[c].authors))
                    => author[c] = Some(Str(InOrder(meta[c].authors[1].val, <<"\n">>)))
            /\ (FromScript(c) /\ IsList(disk.script.params.__authors__)
                    /\ disk.script.params.__author__ = Nothing)
                    => author[c] = Some(Str(InOrder(disk.script.params.__authors__[1].val, <<"\n">>)))
            /\ (FromDescriptor(c) /\ IsList(meta[c].context) /\ errors = 0
                    /\ type_id[c] # PANEL_PUSH_BUTTON_POSTFIX)
                    => cmd_context[c] = Some(Str(InOrder(meta[c].context[1].val, <<";">>)))
            /\ (FromScript(c) /\ IsList(disk.script.params.__context__)
                    /\ type_id[c] # PANEL_PUSH_BUTTON_POSTFIX)
                    => cmd_context[c] = Some(Str(InOrder(disk.script.params.__context__[1].val, <<";">>)))

\* a command whose descriptor declares a list of authors and a list of
\* contexts, and a command whose script does
C22_Witness ==
    \E c \in Commands :
        /\ Constructed(c)
        /\ author[c] = Some(Str(<<"{", "{", "a", "}", "}">> \o <<"\n">> \o <<"J">>))
        /\ cmd_context[c] = Some(Str(<<"W", ";", "T">>))
        /\ FromDescriptor(c) /\ IsList(meta[c].authors) /\ IsList(meta[c].context)

\* the text with every placeholder '{{k}}' of a key k of the templates
\* replaced by templates[k], read from the left
RECURSIVE AllReplaced(_, _)
AllReplaced(s, items) ==
    LET starts == {i \in DOMAIN items :
                        /\ Len(LiquidTag(items[i].k)) <= Len(s)
                        /\ SubSeq(s, 1, Len(LiquidTag(items[i].k))) = LiquidTag(items[i].k)}
    IN  IF s = <<>> THEN <<>>
        ELSE IF starts = {} THEN <<s[1]>> \o AllReplaced(Tail(s), items)
        ELSE LET i == CHOOSE i \in starts : TRUE
             IN  items[i].v \o
                 AllReplaced(SubSeq(s, Len(LiquidTag(items[i].k)) + 1, Len(s)), items)

\* what configure leaves of a configurable parameter
Configured(pval, templates) ==
    IF pval = Nothing \/ pval[1] = <<>> THEN pval
    ELSE Some(AllReplaced(pval[1], templates))

ValueOf(n) ==
    <<type_id[n], name[n], ui_title[n], directory[n], unique_name[n],
      library_path[n], binary_path[n], module_paths[n], meta_file[n], meta[n],
      script_file[n], config_script_file[n], min_revit_ver[n],
      max_revit_ver[n], cmd_context[n], doc_string[n], beta_cmd[n],
      requires_clean_engine[n], author[n], cmd_help_url[n]>>

\* what a cache dictionary holds under the same keys
Cached(d) ==
    <<d.type_id, d.name, d.ui_title, d.directory, d.unique_name,
      d.library_path, d.binary_path, d.module_paths, d.meta_file, d.meta,
      d.script_file, d.config_script_file, d.min_revit_ver,
      d.max_revit_ver, d.cmd_context, d.doc_string, d.beta_cmd,
      d.requires_clean_engine, d.author, d.cmd_help_url>>

\* C24: get_cache_data() returns the node's full attribute dictionary plus
\* its type tag under 'type_id' without modifying the node, and a fresh node
\* of the same type given that dictionary through load_cache_data() has the
\* same value as the original for every attribute.
C24_CacheRoundTrip ==
    [][/\ last' = "get_cache_data" =>
            /\ Cached(ret'[1]) = ValueOf(args'.self)
            /\ Cardinality(DOMAIN ret'[1]) = Len(ValueOf(args'.self))
            /\ \A n \in DOMAIN name : ValueOf(n)' = ValueOf(n)
       /\ last' = "load_cache_data" =>
            \A n, o \in DOMAIN name :
                (n = args'.self /\ o = args'.of) =>
                    /\ ValueOf(n)' = ValueOf(o)
                    /\ ValueOf(o)' = ValueOf(o)
    ]_vars

\* the fresh object holds what a constructed and configured command held
C24_Witness ==
    /\ last = "load_cache_data"
    /\ args.self # args.of
    /\ ValueOf(args.self) = ValueOf(args.of)
    /\ ui_title[args.self] = <<"X", "y">>
    /\ directory[args.self] # Nothing
    /\ author[args.self] = Some(Str(<<"X", "y">> \o <<"\n">> \o <<"J">>))

\* ------------------------------------------------ claims on marker placement
\* the number of layout lines above line i (from 0) that name a stored child
MatchedAbove(i) == Len(ListedNames(SubSeq(Items, 1, i)))

\* the number of stored children before position p of the yielded list
ChildrenBefore(p) == Cardinality({q \in 1..(p - 1) : Out[q].kind = "component"})

\* every placeholder stands for one inserted marker line of its type, after
\* the children matched above that line and before the ones matched below
MarkersBetweenMatches ==
    \A type \in {SEPARATOR_IDENTIFIER, SLIDEOUT_IDENTIFIER}, k \in 0..Len(Items) :
        Cardinality({i \in MarkerLines : MarkerTypeAt(i) = type /\ MatchedAbove(i) = k})
            = Cardinality({p \in PlaceholdersIn(Out) :
                                Out[p].type_id = type /\ ChildrenBefore(p) = k})

\* C25: in the iteration result every inserted separator or slide-out
\* stands after all children matched by layout lines above its line and
\* before all children matched by layout lines below its line, also when
\* some layout names match no child or when several markers occur.
C25_MarkerPlacement ==
    (Iterated /\ Truthy(layout_items) /\ Kids # <<>>) => MarkersBetweenMatches

\* C25 holds of the layouts whose lines all name a stored child or hold a
\* marker
OnMatchedLayouts ==
    (/\ Iterated /\ Truthy(layout_items) /\ Kids # <<>>
     /\ \A j \in DOMAIN Items : IsStoredName(Items[j]) \/ MarkerOf(Items[j]) # <<>>)
        => MarkersBetweenMatches

\* C29: the layout-ordered iteration result never ends with a synthetic
\* separator or slide-out placeholder: for every layout and every set of
\* stored children with at least one layout match, the last yielded element
\* is a stored child.
C29_NoTrailingMarker ==
    (Iterated /\ Truthy(layout_items) /\ ListedNames(Items) # <<>>) =>
        /\ Out # <<>>
        /\ Out[Len(Out)].kind = "component"

\* C29 holds of the layouts whose last line names a stored child and whose
\* other lines all name a stored child or hold a marker
OnLayoutsEndingInChild ==
    (/\ Iterated /\ Truthy(layout_items)
     /\ IsStoredName(Items[Len(Items)])
     /\ \A j \in DOMAIN Items : IsStoredName(Items[j]) \/ MarkerOf(Items[j]) # <<>>)
        => (Out # <<>> /\ Out[Len(Out)].kind = "component")

\* ------------------------------------------------ repeated iteration
\* GenericUIContainer.__iter__ called again right after an iteration: the
\* loop of a caller that walks the same container twice
IterateAgain ==
    LET r == _get_components_per_layout(
                get_components(_sub_components, "panel"), name, ui_title,
                layout, layout_items)
    IN  /\ last \in {"__iter__", "__iter__ again"}
        /\ ret' = Some(r.cmps)
        /\ ui_title' = r.titles
        /\ last' = "__iter__ again"
        /\ UNCHANGED <<module_paths, _sub_components, name, layout, layout_items,
                       dirVars>>

NextRepeat ==
    \/ \E i \in 1..MaxComponents, nm \in Names : AddNamedComponent(i, nm)
    \/ Iterate
    \/ IterateAgain

SpecRepeat == InitLayout /\ [][NextRepeat]_vars

\* C30: two consecutive iterations of the same container with no operation
\* in between yield sequences of equal length with the same stored children
\* and the same marker types at the same positions, and the second
\* iteration changes no child's ui_title.
C30_RepeatableIteration ==
    [][last' = "__iter__ again" =>
        /\ Len(ret'[1]) = Len(ret[1])
        /\ \A p \in DOMAIN ret[1] :
                /\ ret'[1][p].kind = ret[1][p].kind
                /\ ret'[1][p].obj = ret[1][p].obj
                /\ ret'[1][p].type_id = ret[1][p].type_id
        /\ ui_title' = ui_title
    ]_vars

\* a second iteration that yielded a retitled child and a marker
C30_Witness ==
    /\ last = "__iter__ again"
    /\ PlaceholdersIn(Out) # {}
    /\ \E p \in DOMAIN Out :
        /\ Out[p].kind = "component"
        /\ ui_title[Out[p].obj] # name[Out[p].obj]

\* ------------------------------------------------ components of a type
\* the classes get_components_of_type is asked for
Classes ==
    {"GenericComponent", "GenericUIComponent", "GenericUIContainer",
     "GenericUICommand"}

TypeNodes == Containers \cup Buttons

\* the layout files of the panel
TypeLayouts ==
    { <<NAME_B, SEPARATOR_IDENTIFIER, NAME_A>>, <<NAME_C>>,
      <<SLIDEOUT_IDENTIFIER, NAME_B>> }

\* a tab, a panel with or without layout file, and named buttons, none of
\* them stored in a container yet
InitTypes ==
    /\ module_paths = [n \in TypeNodes |-> <<>>]
    /\ _sub_components = [n \in Containers |-> <<>>]
    /\ last = "__init_from_dir__"
    /\ name = [n \in TypeNodes |->
                CASE n = "tab" -> <<"t">>
                  [] n = "panel" -> <<"p">>
                  [] n = ButtonIds[1] -> NAME_A
                  [] n = ButtonIds[2] -> NAME_B
                  [] OTHER -> NAME_C]
    /\ ui_title = name
    /\ \/ layout = Nothing /\ layout_items = Nothing
       \/ \E lines \in TypeLayouts :
            /\ layout = Some(lines)
            /\ layout_items = Some(_remove_layout_directives(lines))
    /\ ret = Nothing
    /\ NoDirState

\* container.get_components_of_type(cmp_type)
GetComponentsOfType(n, cmp_type) ==
    /\ ret' = Some(get_components_of_type(_sub_components, n, cmp_type))
    /\ last' = "get_components_of_type"
    /\ args' = [self |-> n, cmp_type |-> cmp_type]
    /\ UNCHANGED <<module_paths, _sub_components, name, ui_title, layout,
                   layout_items, componentVars, commandVars, raised, errors,
                   disk, HOST_APP,
                   loggerVars>>

NextTypes ==
    \/ \E n \in Containers, comp \in TypeNodes : AddComponent(n, comp)
    \/ \E n \in Containers, cmp_type \in Classes : GetComponentsOfType(n, cmp_type)

SpecTypes == InitTypes /\ [][NextTypes]_vars

\* ------------------------------------------------ claims on components of a type
\* the components below the listed ones, each before what it stores and
\* siblings in stored order: the order of a depth-first discovery
RECURSIVE DepthFirst(_)
DepthFirst(comps) ==
    IF comps = <<>> THEN <<>>
    ELSE <<Head(comps)>> \o DepthFirst(get_components(_sub_components, Head(comps)))
         \o DepthFirst(Tail(comps))

\* d is reached from n through stored children that are no instances of
\* cmp_type
RECURSIVE ReachedFrom(_, _, _)
ReachedFrom(n, d, cmp_type) ==
    \/ d \in Children(_sub_components, n)
    \/ \E c \in Children(_sub_components, n) :
            ~IsInstance(c, cmp_type) /\ ReachedFrom(c, d, cmp_type)

RECURSIVE Filtered(_, _, _)
Filtered(list, n, cmp_type) ==
    IF list = <<>> THEN <<>>
    ELSE (IF IsInstance(Head(list), cmp_type) /\ ReachedFrom(n, Head(list), cmp_type)
          THEN <<Head(list)>> ELSE <<>>)
         \o Filtered(Tail(list), n, cmp_type)

\* C26: get_components_of_type(T) returns, in depth-first discovery order
\* and independently of any layout, every descendant that is an instance of
\* T and is reachable from the container through stored children that are
\* not themselves instances of T; it does not descend into a child that
\* matches T, and it never returns a synthetic marker.
C26_ComponentsOfType ==
    last = "get_components_of_type" =>
        /\ ret[1] = Filtered(DepthFirst(get_components(_sub_components, args.self)),
                             args.self, args.cmp_type)
        /\ \A p \in DOMAIN ret[1] :
                /\ ret[1][p] \in Descendants(_sub_components, args.self)
                /\ \A c \in Descendants(_sub_components, ret[1][p]) :
                        c \notin Range(ret[1])

\* a tab that stores a button, the panel and a button, in this order; the
\* panel stores a button that its layout does not list: asked for commands,
\* the tab returns the three buttons depth first
C26_Witness ==
    /\ last = "get_components_of_type"
    /\ args.self = "tab" /\ args.cmp_type = "GenericUICommand"
    /\ Len(_sub_components["tab"]) = 3 /\ _sub_components["tab"][2] = "panel"
    /\ Len(_sub_components["panel"]) = 1
    /\ Truthy(layout_items)
    /\ name[_sub_components["panel"][1]] \notin Range(layout_items[1])
    /\ ret[1] = <<_sub_components["tab"][1], _sub_components["panel"][1],
                  _sub_components["tab"][3]>>

\* ------------------------------------------------ loggers
\* the levels of the logging module
DEBUG == 10
INFO == 20
WARNING == 30
ERROR == 40
CRITICAL == 50
Levels == {DEBUG, INFO, WARNING, ERROR, CRITICAL}

DEFAULT_LOGGING_LEVEL == WARNING

\* the names get_logger is called with
Loggers == {"l1", "l2"}

\* the handlers get_logger adds to a logger, in the order it adds them
Handlers == <<"stdout_hndlr", "file_hndlr">>

\* "isinstance(hdlr, logging.StreamHandler)": stdout_hndlr is a
\* logging.StreamHandler, file_hndlr a logging.FileHandler, and
\* logging.FileHandler is a subclass of logging.StreamHandler
IsStreamHandler(hdlr) == hdlr \in {"stdout_hndlr", "file_hndlr"}

\* "isinstance(hdlr, logging.FileHandler)"
IsFileHandler(hdlr) == hdlr = "file_hndlr"

\* LoggerWrapper.callHandlers: the handlers that handle a record
callHandlers(levelno, curlevel, filelogstate) ==
    {hdlr \in Range(Handlers) :
        IF IsStreamHandler(hdlr) /\ levelno >= curlevel THEN TRUE
        ELSE IF IsFileHandler(hdlr) /\ filelogstate THEN TRUE
        ELSE FALSE}

\* LoggerWrapper.isEnabledFor: the two attributes it updates and what it
\* returns
isEnabledFor(level, env, params) ==
    LET filelogstate == env.FILELOGGING
        curlevel == IF params.forced_debug_mode THEN DEBUG ELSE env.LOGGINGLEVEL
    IN  [_filelogstate |-> filelogstate,
         _curlevel |-> curlevel,
         enabled |-> IF filelogstate THEN level >= DEBUG ELSE level >= curlevel]

\* a flag that tells the level of the last message only
Latched_LastOnly(has_errors, level) == level >= ERROR

\* "self._has_errors = (self._has_errors or level >= logging.ERROR)"
Latched(has_errors, level) == has_errors \/ level >= ERROR

\* LoggerWrapper.has_errors
has_errors(logger) == _has_errors[logger]

\* loggers_have_errors
loggers_have_errors == \E logger \in DOMAIN _has_errors : has_errors(logger)

\* the module after import and two get_logger calls: the environment
\* variables hold the defaults, every logger is as __init__ leaves it
InitLogger ==
    /\ module_paths = <<>> /\ _sub_components = <<>>
    /\ last = "get_logger"
    /\ name = <<>> /\ ui_title = <<>>
    /\ layout = Nothing /\ layout_items = Nothing /\ ret = Nothing
    /\ type_id = <<>> /\ directory = <<>> /\ unique_name = <<>>
    /\ library_path = <<>> /\ binary_path = <<>>
    /\ meta_file = <<>> /\ meta = <<>>
    /\ script_file = <<>> /\ config_script_file = <<>>
    /\ min_revit_ver = <<>> /\ max_revit_ver = <<>>
    /\ cmd_context = <<>> /\ doc_string = <<>>
    /\ beta_cmd = <<>> /\ requires_clean_engine = <<>>
    /\ author = <<>> /\ cmd_help_url = <<>>
    /\ args = <<>> /\ raised = Nothing /\ errors = 0
    /\ disk = <<>> /\ HOST_APP = <<>>
    /\ envvars = [LOGGINGLEVEL |-> DEFAULT_LOGGING_LEVEL,
                  FILELOGGING |-> FALSE]
    /\ EXEC_PARAMS \in [forced_debug_mode : BOOLEAN]
    /\ _has_errors = [l \in Loggers |-> FALSE]
    /\ _filelogstate = [l \in Loggers |-> FALSE]
    /\ _curlevel = [l \in Loggers |-> DEFAULT_LOGGING_LEVEL]
    /\ handled = Nothing

\* LoggerWrapper._reset_logger_env_vars
_reset_logger_env_vars(env, log_level) == [env EXCEPT !.LOGGINGLEVEL = log_level]

\* what a change of an environment variable leaves alone
envFrame ==
    <<module_paths, _sub_components, layoutVars, componentVars, commandVars,
      outsideVars, EXEC_PARAMS, _has_errors, _filelogstate, _curlevel, handled>>

\* LoggerWrapper.set_level(level)
SetLevel(level) ==
    /\ envvars' = _reset_logger_env_vars(envvars, level)
    /\ last' = "set_level"
    /\ UNCHANGED envFrame

\* LoggerWrapper.set_quiet_mode
SetQuietMode ==
    /\ envvars' = _reset_logger_env_vars(envvars, CRITICAL)
    /\ last' = "set_quiet_mode"
    /\ UNCHANGED envFrame

\* LoggerWrapper.set_verbose_mode
SetVerboseMode ==
    /\ envvars' = _reset_logger_env_vars(envvars, INFO)
    /\ last' = "set_verbose_mode"
    /\ UNCHANGED envFrame

\* LoggerWrapper.set_debug_mode
SetDebugMode ==
    /\ envvars' = _reset_logger_env_vars(envvars, DEBUG)
    /\ last' = "set_debug_mode"
    /\ UNCHANGED envFrame

\* LoggerWrapper.reset_level
ResetLevel ==
    /\ envvars' = _reset_logger_env_vars(envvars, DEFAULT_LOGGING_LEVEL)
    /\ last' = "reset_level"
    /\ UNCHANGED envFrame

\* set_file_logging(status)
SetFileLogging(status) ==
    /\ envvars' = [envvars EXCEPT !.FILELOGGING = status]
    /\ last' = "set_file_logging"
    /\ UNCHANGED envFrame

\* logger.debug, info, warning, error or critical: "if
\* self.isEnabledFor(level): self._log(level, msg, args)", _log making the
\* record and passing it to callHandlers
Log(logger, level) ==
    LET e == isEnabledFor(level, envvars, EXEC_PARAMS)
    IN  /\ _filelogstate' = [_filelogstate EXCEPT ![logger] = e._filelogstate]
        /\ _curlevel' = [_curlevel EXCEPT ![logger] = e._curlevel]
        /\ _has_errors' = [_has_errors EXCEPT ![logger] =
                IF e.enabled THEN Latched(@, level) ELSE @]
        /\ handled' = Some([logger |-> logger, levelno |-> level,
                            logged |-> e.enabled,
                            by |-> IF e.enabled
                                   THEN callHandlers(level, e._curlevel, e._filelogstate)
                                   ELSE {}])
        /\ last' = "log"
        /\ UNCHANGED <<module_paths, _sub_components, layoutVars, componentVars,
                       commandVars, outsideVars, envvars, EXEC_PARAMS>>

NextLogger ==
    \/ \E level \in Levels : SetLevel(level)
    \/ SetQuietMode
    \/ SetVerboseMode
    \/ SetDebugMode
    \/ ResetLevel
    \/ \E status \in BOOLEAN : SetFileLogging(status)
    \/ \E logger \in Loggers, level \in Levels : Log(logger, level)

SpecLogger == InitLogger /\ [][NextLogger]_vars

\* ------------------------------------------------ claims on loggers
\* the last call was a log call; its record, if one was made, went to the
\* handlers in Record.by
Logging == last = "log" /\ handled # Nothing
Record == handled[1]

StdoutGated ==
    "stdout_hndlr" \in Record.by => Record.levelno >= _curlevel[Record.logger]

FileTakesAll ==
    envvars.FILELOGGING => "file_hndlr" \in Record.by

\* C27: for every record and every setting of the level and file-logging
\* variables, the stream (stdout) handler handles the record only when its
\* level is at least the current level, and the file handler handles the
\* record only when file logging is enabled, in which case it handles every
\* record whatever its level.
C27_HandlerGating ==
    Logging =>
        /\ StdoutGated
        /\ "file_hndlr" \in Record.by => envvars.FILELOGGING
        /\ FileTakesAll

\* C27 holds of the stdout handler, and of the file handler while file
\* logging is enabled
OnStdoutAndEnabledFile == Logging => (StdoutGated /\ FileTakesAll)

\* the log call was enabled: its level is at least the current level, or
\* file logging is on
Reported ==
    /\ Record.levelno >= (IF EXEC_PARAMS.forced_debug_mode THEN DEBUG
                          ELSE envvars.LOGGINGLEVEL)
       \/ envvars.FILELOGGING

\* has_errors() never returns to False, and it turns True only in a log call
\* of the logger at level ERROR or higher
LatchKept ==
    \A logger \in Loggers :
        /\ has_errors(logger) => has_errors(logger)'
        /\ (~has_errors(logger) /\ has_errors(logger)') =>
                /\ last' = "log" /\ handled'[1].logger = logger
                /\ handled'[1].levelno >= ERROR

\* C28 as stated: for any sequence of level changes and log calls,
\* has_errors() is False before the first call that reports a message at
\* level ERROR or higher, True after any such call, and never returns to
\* False afterwards.
C28_ErrorLatch_Original ==
    [][/\ LatchKept
       /\ (last' = "log" /\ handled'[1].levelno >= ERROR)
                => _has_errors'[handled'[1].logger]
    ]_vars

\* C28, amended: has_errors() is False before the first log call at level
\* ERROR or higher that is enabled when it is made (its level is at least
\* the current logging level, or file logging is on), True after any such
\* call, and never returns to False afterwards; a call at level ERROR or
\* higher that the current level disables (error() in quiet mode) leaves
\* has_errors() as it is.
C28_ErrorLatch ==
    [][/\ LatchKept
       /\ (last' = "log" /\ handled'[1].levelno >= ERROR /\ Reported')
                => _has_errors'[handled'[1].logger]
       /\ (last' = "log" /\ ~Reported') => UNCHANGED _has_errors
    ]_vars

\* one logger has reported an error and the other has not; the level was
\* changed afterwards and a message below ERROR was logged
C28_Witness ==
    /\ Logging /\ Record.levelno < ERROR /\ Record.logged
    /\ has_errors(Record.logger)
    /\ \E other \in Loggers : ~has_errors(other)
    /\ loggers_have_errors
    /\ envvars.LOGGINGLEVEL = DEBUG
====
